---- MODULE Spec2Model ----
(***************************************************************************)
(* Model of the image pipeline of npe1-colecture: ImageOrchestrator        *)
(* (process_slide, _generate_ai_image), KeywordExtractor, ImageSearcher,   *)
(* ImageScorer, ImageGenerator and the generated-image cache.              *)
(*                                                                         *)
(* Conventions.  Scores are integers in hundredths (0.99 is 99).  An       *)
(* Optional value is a sequence: <<>> is None and <<v>> is the value v.    *)
(* A URL is the sequence of its lexical pieces, so that startswith, the    *)
(* membership test for "," and split(",", 1) are computed on it; the empty *)
(* string is <<>>.  Each await of the code is one step of a run.           *)
(***************************************************************************)
EXTENDS Integers, Sequences, FiniteSets, TLC

VARIABLES
    run,         \* run[r]: the frame of one call (its position and locals)
    last_error,  \* ImageGenerator.last_error, one per orchestrator (shared)
    store        \* generated_cache._STORE, in insertion order

vars == <<run, last_error, store>>

Runs == {1, 2}

None == <<>>
Some(v) == <<v>>

(***************************************************************************)
(* Configuration (config.py defaults), in hundredths.                      *)
(***************************************************************************)
MinPresentationScore == 60
MinQualityScore == 70
MinNuditySafeScore == 99
DefaultQualityScore == 50
FullScore == 100

\* The fields class Config declares.
ConfigFields ==
    {"openrouter_api_key", "unsplash_access_key", "pexels_api_key",
     "sightengine_api_user", "sightengine_api_secret", "flux_api_key",
     "flux_model", "scoring_service_url", "openrouter_referer",
     "openrouter_title", "min_presentation_score", "min_quality_score",
     "min_nudity_safe_score", "gemini_model", "claude_model",
     "gemini_image_model", "public_base_url"}

\* config.public_base_url: PUBLIC_BASE_URL or the hardcoded fallback.
PublicBaseUrl == "https://langchain.gurk.li"

(***************************************************************************)
(* Slides.  A slide object of class SlideInput has the declared fields     *)
(* only (the keyword override is image_keywords, alias ImageKeywords);     *)
(* reading any other attribute of it raises AttributeError.  unsplash-     *)
(* SearchTerms.kind = "absent" says the object has no such attribute;      *)
(* objects of another class that do carry it have kind "none" or "list".   *)
(* lang is the language _is_probably_english finds in the slide's texts    *)
(* and texts the number of texts (title and bullets) it has.               *)
(***************************************************************************)
AbsentAttr == [kind |-> "absent", items |-> <<>>]
NoneAttr == [kind |-> "none", items |-> <<>>]
ListAttr(s) == [kind |-> "list", items |-> s]

\* Keyword override lists of the inputs.
KeywordLists ==
    { <<"lean manufacturing", "industrial efficiency", "business transformation">>,
      <<"dog", "", "meadow", "team", "data">>,
      <<"">> }

\* style values: None, a list of strings (the declared type), or a string.
StyleNone == "None"
StyleEmptyList == "[]"
StyleList == "['modern']"
StyleStrings == {"flat_illustration", "Fine_Line", "minimal"}

ImageModes == {"stock_only", "ai_only", "auto"}
AiModels == {"auto", "flux", "banana", "imagen"}

\* Slides as the public entry points build them (api.py: the POST body, the
\* GET endpoint's keywords parameter after split and strip).  The GET
\* endpoint passes its style parameter as a string, which SlideInput refuses:
\* it builds a slide only when no style is given.
SlideInputs ==
    [entry : {"post"},
     lang : {"en", "de"},
     texts : {1},
     image_keywords : {NoneAttr} \cup {ListAttr(k) : k \in KeywordLists},
     unsplashSearchTerms : {AbsentAttr},
     style : {StyleNone, StyleList},
     image_mode : {"auto", "ai_only"},
     ai_model : {"auto"}]
    \cup
    [entry : {"get"},
     lang : {"en", "de"},
     texts : {1},
     image_keywords : {NoneAttr} \cup {ListAttr(k) : k \in KeywordLists},
     unsplashSearchTerms : {AbsentAttr},
     style : {StyleNone},
     image_mode : {"auto", "ai_only"},
     ai_model : {"auto"}]

\* The slide main.py builds: SlideInput drops the keyword unsplashSearchTerms
\* it is given, and the title and the three bullets are German.
MainSlide ==
    [entry |-> "direct", lang |-> "de", texts |-> 4,
     image_keywords |-> NoneAttr, unsplashSearchTerms |-> AbsentAttr,
     style |-> StyleNone, image_mode |-> "auto", ai_model |-> "auto"]

\* Slide objects of a class that carries the attribute extract_keywords
\* reads, given to process_slide directly.
TermSlides ==
    [entry : {"direct"},
     lang : {"en"},
     texts : {1},
     image_keywords : {NoneAttr},
     unsplashSearchTerms : {NoneAttr, ListAttr(<<>>)}
                             \cup {ListAttr(k) : k \in KeywordLists},
     style : {StyleNone, StyleList} \cup StyleStrings,
     image_mode : ImageModes,
     ai_model : AiModels]
    \cup
    [entry : {"direct"},
     lang : {"de"},
     texts : {2},
     image_keywords : {NoneAttr},
     unsplashSearchTerms : {NoneAttr, ListAttr(<<>>)}
                             \cup {ListAttr(k) : k \in KeywordLists},
     style : {StyleNone, StyleList} \cup StyleStrings,
     image_mode : ImageModes,
     ai_model : AiModels]

Slides == SlideInputs \cup {MainSlide} \cup TermSlides

\* The slides of two requests served at the same time by the one
\* orchestrator of api.py: generation is asked for, with either generator.
ConcurrentSlides ==
    {s \in TermSlides :
        /\ s.lang = "en"
        /\ s.unsplashSearchTerms = ListAttr(<<"dog", "", "meadow", "team", "data">>)
        /\ s.style = StyleNone
        /\ s.image_mode = "ai_only"
        /\ s.ai_model \in {"flux", "imagen"}}

(***************************************************************************)
(* Python helpers.                                                         *)
(***************************************************************************)
\* bool(x) of an attribute value: None and the empty list are falsy.
Truthy(a) == a.kind = "list" /\ a.items # <<>>

\* [k for k in s if k]
RECURSIVE NonEmptyItems(_)
NonEmptyItems(s) ==
    IF s = <<>> THEN <<>>
    ELSE IF Head(s) = "" THEN NonEmptyItems(Tail(s))
         ELSE <<Head(s)>> \o NonEmptyItems(Tail(s))

\* s[:n]
Take(s, n) == SubSeq(s, 1, IF Len(s) < n THEN Len(s) ELSE n)

\* ", ".join(s)
RECURSIVE Join(_)
Join(s) ==
    IF s = <<>> THEN ""
    ELSE IF Len(s) = 1 THEN s[1]
         ELSE s[1] \o ", " \o Join(Tail(s))

\* str.lower() on the style strings of the inputs.
Lower(s) ==
    IF s = "Fine_Line" THEN "fine_line"
    ELSE IF s = "NSFW" THEN "nsfw"
    ELSE IF s = "Safe" THEN "safe"
    ELSE s

(***************************************************************************)
(* KeywordExtractor.extract_keywords.  ext and ref are what the two LLM    *)
(* calls do: ext in ExtractionOutcomes, ref in RefinementOutcomes.  The    *)
(* value is the call's outcome: exc (the exception that leaves it, "" for  *)
(* none), skip, english_keywords, refined, and llm, the LLM calls made.    *)
(***************************************************************************)
ExtractionOutcomes == {"raise", "unparsable", "skip", "keywords"}
RefinementOutcomes == {"raise", "refined"}

ExtractedKeywords == <<"dog", "meadow", "grass", "pet">>
RefinedAnswer == "dog, meadow"

ExtractOutcome(exc, skip, kws, refined, llm) ==
    [exc |-> exc, skip |-> skip, english_keywords |-> kws,
     refined |-> refined, llm |-> llm]

ExtractKeywords(slide, ext, ref) ==
    LET terms == slide.unsplashSearchTerms IN
    IF terms.kind = "absent"
    THEN \* line 63: the attribute read raises
         ExtractOutcome("AttributeError", FALSE, <<>>, "", <<>>)
    ELSE IF Truthy(terms)
    THEN LET explicit_keywords == NonEmptyItems(terms.items) IN
         ExtractOutcome("", FALSE, explicit_keywords,
                        Join(Take(explicit_keywords, 3)), <<>>)
    ELSE IF ext = "raise"
    THEN ExtractOutcome("LLMError", FALSE, <<>>, "", <<"extract">>)
    ELSE LET skip == (ext = "skip")
             kws == IF ext = "keywords" THEN ExtractedKeywords
                    ELSE IF ext = "skip" THEN <<>>
                    ELSE \* fallback: slide.unsplashSearchTerms or []
                         IF Truthy(terms) THEN terms.items ELSE <<>>
         IN IF ref = "raise"
            THEN ExtractOutcome("LLMError", FALSE, <<>>, "",
                                <<"extract", "refine">>)
            ELSE ExtractOutcome("", skip, kws, RefinedAnswer,
                                <<"extract", "refine">>)

(***************************************************************************)
(* ImageSearcher.search_all.  A provider call either raises or returns the *)
(* list of ImageRef it built; asyncio.gather(return_exceptions=True) hands *)
(* both outcomes back in task order.                                       *)
(***************************************************************************)
ImageRef(index, id, url, source) ==
    [index |-> index, id |-> id, regular_url |-> url, full_url |-> url,
     source |-> source]

ProviderRaises == [ok |-> FALSE, items |-> <<>>]
ProviderReturns(items) == [ok |-> TRUE, items |-> items]

\* key = f"{result.source}:{result.id}" if result.id else result.full_url
DedupKey(result) ==
    IF result.id # None /\ result.id[1] # ""
    THEN <<result.source, ":", result.id[1]>>
    ELSE result.full_url

\* Mutant: the kept results keep the ordinal their provider gave them.
RECURSIVE DedupKeepsProviderIndex(_, _, _)
DedupKeepsProviderIndex(items, seen_urls, all_results) ==
    IF items = <<>> THEN all_results
    ELSE LET result == Head(items)
             key == DedupKey(result)
         IN IF key \notin seen_urls
            THEN DedupKeepsProviderIndex(Tail(items), seen_urls \cup {key},
                                         Append(all_results, result))
            ELSE DedupKeepsProviderIndex(Tail(items), seen_urls, all_results)

\* The loop of lines 119-128 over the items left, given seen_urls and all_results.
RECURSIVE Dedup(_, _, _)
Dedup(items, seen_urls, all_results) ==
    IF items = <<>> THEN all_results
    ELSE LET result == Head(items)
             key == DedupKey(result)
         IN IF key \notin seen_urls
            THEN Dedup(Tail(items), seen_urls \cup {key},
                       Append(all_results,
                              [result EXCEPT !.index = Len(all_results)]))
            ELSE Dedup(Tail(items), seen_urls, all_results)

\* What gather's value becomes after lines 110-117.
HandleProviderException(outcome) ==
    IF outcome.ok THEN outcome.items ELSE <<>>

\* Mutant: one provider's exception empties the whole aggregate.
SearchAllAbortsOnFailure(unsplash, pexels) ==
    IF unsplash.ok /\ pexels.ok
    THEN Dedup(unsplash.items \o pexels.items, {}, <<>>)
    ELSE <<>>

SearchAll(unsplash, pexels) ==
    LET unsplash_results == HandleProviderException(unsplash)
        pexels_results == HandleProviderException(pexels)
    IN Dedup(unsplash_results \o pexels_results, {}, <<>>)

(***************************************************************************)
(* ImageScorer.                                                            *)
(***************************************************************************)
\* JSON values of a safety provider's response: a key that is absent, null,
\* a number (in hundredths), a boolean, a text that is no number, a text
\* that spells a number.
Absent == [t |-> "absent", n |-> 0, s |-> "", b |-> FALSE]
Null == [t |-> "null", n |-> 0, s |-> "", b |-> FALSE]
Num(v) == [t |-> "num", n |-> v, s |-> "", b |-> FALSE]
Bool(b) == [t |-> "bool", n |-> 0, s |-> "", b |-> b]
Str(s) == [t |-> "str", n |-> 0, s |-> s, b |-> FALSE]
NumStr(v) == [t |-> "numstr", n |-> v, s |-> "", b |-> FALSE]

\* The value under "result" or an element of "predictions": absent, an
\* object, or a value that is no object.
NoDict == [t |-> "absent", d |-> <<>>]
NotADict == [t |-> "other", d |-> <<>>]
DictOf(data) == [t |-> "dict", d |-> <<data>>]

\* The value under "predictions": absent, a list, or a value that is no list.
NoList == [t |-> "absent", items |-> <<>>]
NotAList == [t |-> "other", items |-> <<>>]
ListOf(items) == [t |-> "list", items |-> items]

\* A safety provider's response, by key; none is the value at
\* suggestive_classes.cleavage_categories.none and other stands for the keys
\* extract_nudity_safe_score does not read.  EmptyData is {}.
EmptyData ==
    [result |-> NoDict, predictions |-> NoList,
     safe_score |-> Absent, safe_prob |-> Absent, safe_probability |-> Absent,
     safe |-> Absent, nsfw_score |-> Absent, nsfw |-> Absent,
     unsafe |-> Absent, label |-> Absent, score |-> Absent,
     none |-> Absent, other |-> Absent]
SightEngineData(v) == [EmptyData EXCEPT !.none = Num(v)]
SightEngineNoKey == [EmptyData EXCEPT !.other = Str("raw")]

\* Mutant: the number as it came.
ClampUnbounded(num) == num

\* max(0.0, min(1.0, num))
Clamp(num) == IF num < 0 THEN 0 ELSE IF num > FullScore THEN FullScore ELSE num

\* clamp(value), lines 170-175: None when float(value) raises.
ClampValue(value) ==
    IF value.t \in {"num", "numstr"} THEN Some(Clamp(value.n))
    ELSE IF value.t = "bool" THEN Some(IF value.b THEN FullScore ELSE 0)
    ELSE None

\* Lines 211-218: the label and score pair, None when it decides nothing.
LabelScore(nudity_data) ==
    LET label == nudity_data.label
        score_candidate == ClampValue(nudity_data.score)
    IN IF label.t = "str" /\ score_candidate # None
       THEN IF Lower(label.s) \in {"nsfw", "unsafe", "porn"}
            THEN Some(FullScore - score_candidate[1])
            ELSE IF Lower(label.s) \in {"sfw", "safe"}
            THEN score_candidate
            ELSE None
       ELSE None

\* Lines 188-226, the keys of one object, after the nested payloads.
FlatSafeScore(nudity_data) ==
    IF ClampValue(nudity_data.safe_score) # None
    THEN ClampValue(nudity_data.safe_score)[1]
    ELSE IF ClampValue(nudity_data.safe_prob) # None
    THEN ClampValue(nudity_data.safe_prob)[1]
    ELSE IF ClampValue(nudity_data.safe_probability) # None
    THEN ClampValue(nudity_data.safe_probability)[1]
    ELSE IF nudity_data.safe.t = "bool"
    THEN (IF nudity_data.safe.b THEN FullScore ELSE 0)
    ELSE IF ClampValue(nudity_data.nsfw_score) # None
    THEN FullScore - ClampValue(nudity_data.nsfw_score)[1]
    ELSE IF nudity_data.nsfw.t = "bool"
    THEN (IF nudity_data.nsfw.b THEN 0 ELSE FullScore)
    ELSE IF nudity_data.unsafe.t = "bool"
    THEN (IF nudity_data.unsafe.b THEN 0 ELSE FullScore)
    ELSE IF LabelScore(nudity_data) # None
    THEN LabelScore(nudity_data)[1]
    ELSE IF ClampValue(nudity_data.none) # None
    THEN ClampValue(nudity_data.none)[1]
    ELSE FullScore

\* Mutant: the boolean safe flag is read before the safe-probability fields.
RECURSIVE ExtractNuditySafeScoreFlagFirst(_)
ExtractNuditySafeScoreFlagFirst(nudity_data) ==
    IF nudity_data = EmptyData THEN FullScore
    ELSE IF nudity_data.result.t = "dict"
    THEN ExtractNuditySafeScoreFlagFirst(nudity_data.result.d[1])
    ELSE IF /\ nudity_data.predictions.t = "list"
            /\ nudity_data.predictions.items # <<>>
            /\ nudity_data.predictions.items[1].t = "dict"
    THEN ExtractNuditySafeScoreFlagFirst(nudity_data.predictions.items[1].d[1])
    ELSE IF nudity_data.safe.t = "bool"
    THEN (IF nudity_data.safe.b THEN FullScore ELSE 0)
    ELSE FlatSafeScore(nudity_data)

\* extract_nudity_safe_score
RECURSIVE ExtractNuditySafeScore(_)
ExtractNuditySafeScore(nudity_data) ==
    IF nudity_data = EmptyData THEN FullScore
    ELSE IF nudity_data.result.t = "dict"
    THEN ExtractNuditySafeScore(nudity_data.result.d[1])
    ELSE IF /\ nudity_data.predictions.t = "list"
            /\ nudity_data.predictions.items # <<>>
            /\ nudity_data.predictions.items[1].t = "dict"
    THEN ExtractNuditySafeScore(nudity_data.predictions.items[1].d[1])
    ELSE FlatSafeScore(nudity_data)

\* check_nudity: the outcome is [ok, data, called], called listing the
\* providers it called, in order; local and sightengine are the outcomes of
\* the two provider calls, were they made.
CheckOk(data) == [ok |-> TRUE, data |-> data]
CheckRaises == [ok |-> FALSE, data |-> EmptyData]

CheckNudity(local, sightengine) ==
    IF "nudity_service_url" \notin ConfigFields
    THEN \* line 144: config has no such attribute
         [ok |-> FALSE, data |-> EmptyData, called |-> <<>>]
    ELSE IF local.ok
    THEN [ok |-> TRUE, data |-> local.data, called |-> <<"local">>]
    ELSE [ok |-> sightengine.ok, data |-> sightengine.data,
          called |-> <<"local", "sightengine">>]

\* The quality assessor's outcome: a score, or an exception whose message
\* does or does not name the daily usage limit.
QualityOk(v) == [kind |-> "ok", v |-> v]
QualityQuota == [kind |-> "quota", v |-> 0]
QualityError == [kind |-> "error", v |-> 0]
\* The quality service answers with a score that is no number (null, a text).
QualityInvalid == [kind |-> "invalid", v |-> 0]

\* The presentation assessor's outcome: None (no service, or the call
\* failed), a score, or an answer whose score is a text that is no number.
FitUnavailable == [kind |-> "none", v |-> 0]
FitOk(v) == [kind |-> "ok", v |-> v]
FitInvalid == [kind |-> "invalid", v |-> 0]

\* The value score_presentation_fit returns, for the outcomes that
\* QualityScore accepts.
PresentationScore(presentation) ==
    IF presentation.kind = "ok" THEN Some(presentation.v) ELSE None

\* score_image, lines 320-325: QualityScore refuses a quality score that is
\* no number and a presentation score that is neither a number nor None,
\* and the ValidationError leaves score_image.
ScoreImageRaises(quality, presentation) ==
    quality.kind = "invalid" \/ presentation.kind = "invalid"

\* Mutant: every failure of the quality assessor is given the quality floor.
HandleQualityExceptionAtFloor(quality) ==
    IF quality.kind = "ok" THEN quality.v ELSE MinQualityScore

\* score_image, lines 298-306.
HandleQualityException(quality) ==
    IF quality.kind = "ok" THEN quality.v
    ELSE IF quality.kind = "quota" THEN MinQualityScore
    ELSE DefaultQualityScore

\* Mutant: a failed nudity task marks the candidate unsafe.
ScoreImageFailClosed(image_ref, quality, presentation, nudity) ==
    LET nudity_safe_score == IF nudity.ok
                             THEN ExtractNuditySafeScore(nudity.data) ELSE 0
    IN [image_ref |-> image_ref,
        scores |-> [quality_score |-> HandleQualityException(quality),
                    presentation_score |-> PresentationScore(presentation),
                    is_safe |-> nudity_safe_score >= MinNuditySafeScore,
                    nudity_score |-> nudity_safe_score]]

\* score_image: quality, presentation and nudity are what the three gathered
\* tasks gave; the record it returns when ScoreImageRaises does not hold.
ScoreImage(image_ref, quality, presentation, nudity) ==
    LET quality_score == HandleQualityException(quality)
        nudity_data == IF nudity.ok THEN nudity.data ELSE EmptyData
        nudity_safe_score == ExtractNuditySafeScore(nudity_data)
        is_safe == nudity_safe_score >= MinNuditySafeScore
    IN [image_ref |-> image_ref,
        scores |-> [quality_score |-> quality_score,
                    presentation_score |-> PresentationScore(presentation),
                    is_safe |-> is_safe,
                    nudity_score |-> nudity_safe_score]]

\* Mutant: an entry without a fit score is rejected.
PassesNeedsFit(scored_img) ==
    /\ scored_img.scores.is_safe
    /\ ~(scored_img.scores.quality_score < MinQualityScore)
    /\ scored_img.scores.presentation_score # None
    /\ ~(scored_img.scores.presentation_score[1] < MinPresentationScore)

\* The filter loop of filter_and_sort.
Passes(scored_img) ==
    /\ scored_img.scores.is_safe
    /\ ~(scored_img.scores.quality_score < MinQualityScore)
    /\ ~(/\ scored_img.scores.presentation_score # None
         /\ scored_img.scores.presentation_score[1] < MinPresentationScore)

RECURSIVE Filter(_)
Filter(scored_images) ==
    IF scored_images = <<>> THEN <<>>
    ELSE IF Passes(Head(scored_images))
         THEN <<Head(scored_images)>> \o Filter(Tail(scored_images))
         ELSE Filter(Tail(scored_images))

\* Mutant: quality is the primary key.
SortKeyQualityFirst(x) ==
    <<x.scores.quality_score,
      IF x.scores.presentation_score = None THEN 0
      ELSE x.scores.presentation_score[1]>>

\* key=lambda x: (x.scores.presentation_score or 0, x.scores.quality_score)
SortKey(x) ==
    <<IF x.scores.presentation_score = None THEN 0
      ELSE x.scores.presentation_score[1],
      x.scores.quality_score>>

KeyLess(a, b) == a[1] < b[1] \/ (a[1] = b[1] /\ a[2] < b[2])

\* Mutant: an unstable sort, x goes before the elements with its key.
RECURSIVE InsertDescBeforeEquals(_, _)
InsertDescBeforeEquals(sorted, x) ==
    IF sorted = <<>> THEN <<x>>
    ELSE IF ~KeyLess(SortKey(x), SortKey(Head(sorted)))
         THEN <<x>> \o sorted
         ELSE <<Head(sorted)>> \o InsertDescBeforeEquals(Tail(sorted), x)

\* list.sort(reverse=True) is stable: x goes after every element whose key
\* is not less than its own.
RECURSIVE InsertDesc(_, _)
InsertDesc(sorted, x) ==
    IF sorted = <<>> THEN <<x>>
    ELSE IF KeyLess(SortKey(Head(sorted)), SortKey(x))
         THEN <<x>> \o sorted
         ELSE <<Head(sorted)>> \o InsertDesc(Tail(sorted), x)

RECURSIVE SortDesc(_, _)
SortDesc(items, sorted) ==
    IF items = <<>> THEN sorted
    ELSE SortDesc(Tail(items), InsertDesc(sorted, Head(items)))

FilterAndSort(scored_images) == SortDesc(Filter(scored_images), <<>>)

(***************************************************************************)
(* generated_cache.  _STORE is kept as the sequence of its entries in      *)
(* insertion order; uuid4().hex is a value no entry has yet.               *)
(***************************************************************************)
IdNames == <<"id1", "id2", "id3", "id4", "id5", "id6", "id7", "id8">>
NewId(st) == IdNames[Len(st) + 1]

DefaultMediaType == "application/octet-stream"

\* Data URLs and remote URLs the generators return.
DataUrl == <<"data:", "image/png", ";", "base64", ",", "QUJD">>
BadDataUrl == <<"data:", "image/png", ";", "base64">>
FluxUrl == <<"https://", "delivery.bfl.ai/sample.jpeg">>
RemoteUrl == <<"https://", "openrouter.ai/img/1.png">>

\* What a generator may also return, since it hands back the field of the
\* service's JSON answer as it is: a truthy value that is not a str (5,
\* ['x'], true, {'url': ...}), written as the name of its type and the
\* value.
NotAStr == <<"int", "5">>
IsStr(value) == value = <<>> \/ Head(value) # "int"

\* str.startswith: piece is a whole first piece but for 'http', which the
\* first pieces http://, https:// and the public base URL start with.
StartsWith(url, piece) == url # <<>> /\ Head(url) = piece
IsHttp(url) ==
    url # <<>> /\ Head(url) \in {"http://", "https://", PublicBaseUrl}
Contains(url, piece) == \E i \in 1..Len(url) : url[i] = piece
FirstIndex(url, piece) ==
    CHOOSE i \in 1..Len(url) :
        url[i] = piece /\ \A j \in 1..(i - 1) : url[j] # piece

\* Data URLs given to store_data_url directly: a second well-formed one,
\* one without the data: prefix, one whose payload lacks a character (bad
\* padding) and one whose payload has no character of the base64 alphabet.
JpegDataUrl == <<"data:", "image/jpeg", ";", "base64", ",", "QUJD", "QUJD">>
NotDataUrl == <<"image/png", ";", "base64", ",", "QUJD">>
BadPaddingUrl == <<"data:", "image/png", ";", "base64", ",", "QUJ">>
NonAlphabetUrl == <<"data:", "image/png", ";", "base64", ",", "@@@@">>

\* The number of characters of the base64 alphabet in a piece of a payload.
B64Chars(piece) ==
    IF piece = "QUJD" THEN 4 ELSE IF piece = "QUJ" THEN 3 ELSE 0

RECURSIVE B64Count(_)
B64Count(payload) ==
    IF payload = <<>> THEN 0
    ELSE B64Chars(Head(payload)) + B64Count(Tail(payload))

\* The bytes of the complete groups: "QUJD" encodes "ABC".
RECURSIVE B64Bytes(_)
B64Bytes(payload) ==
    IF payload = <<>> THEN ""
    ELSE (IF Head(payload) = "QUJD" THEN "ABC" ELSE "") \o B64Bytes(Tail(payload))

\* base64.b64decode(s) with validate=False, [ok, bytes]: the characters
\* outside the alphabet are discarded, then the rest must be a whole number
\* of groups of four or binascii.Error is raised.
B64Decode(payload) ==
    IF B64Count(payload) % 4 = 0
    THEN [ok |-> TRUE, bytes |-> B64Bytes(payload)]
    ELSE [ok |-> FALSE, bytes |-> ""]

CachedImage(id, data, media_type) ==
    [id |-> id, data |-> data, media_type |-> media_type]

\* Mutant: a bounded cache that keeps the newest entry only.
StoreDataUrlEvicting(st, data_url) ==
    IF ~StartsWith(data_url, "data:") \/ ~Contains(data_url, ",")
    THEN [ok |-> FALSE, id |-> "", store |-> st]
    ELSE [ok |-> TRUE, id |-> NewId(st),
          store |-> <<CachedImage(NewId(st), "ABC", "image/png")>>]

\* store_data_url: [ok, id, store]; ok = FALSE is the ValueError.
StoreDataUrl(st, data_url) ==
    IF ~StartsWith(data_url, "data:")
    THEN [ok |-> FALSE, id |-> "", store |-> st]
    ELSE IF ~Contains(data_url, ",")
    THEN [ok |-> FALSE, id |-> "", store |-> st]
    ELSE LET k == FirstIndex(data_url, ",")
             header == SubSeq(data_url, 1, k - 1)
             b64_data == SubSeq(data_url, k + 1, Len(data_url))
             \* header.split(";")[0][5:] or header[5:], or the default
             media_type == IF Len(header) >= 2 /\ header[2] # ";"
                           THEN header[2] ELSE DefaultMediaType
             decoded == B64Decode(b64_data)
         IN IF ~decoded.ok
            THEN [ok |-> FALSE, id |-> "", store |-> st]
            ELSE [ok |-> TRUE, id |-> NewId(st),
                  store |-> Append(st, CachedImage(NewId(st), decoded.bytes,
                                                   media_type))]

\* store_bytes
StoreBytes(st, data, media_type) ==
    [ok |-> TRUE, id |-> NewId(st),
     store |-> Append(st, CachedImage(NewId(st), data,
                         IF media_type = "" THEN DefaultMediaType
                         ELSE media_type))]

\* get_image: None or the entry.
GetImage(st, image_id) ==
    IF \E i \in 1..Len(st) : st[i].id = image_id
    THEN Some(st[CHOOSE i \in 1..Len(st) : st[i].id = image_id])
    ELSE None

\* f"{base_url}/generated/{image_id}"
ServedUrl(image_id) == <<PublicBaseUrl, "/generated/", image_id>>
\* f"{config.public_base_url.rstrip('/')}/static/error.png"
ErrorUrl == <<PublicBaseUrl, "/static/error.png">>

(***************************************************************************)
(* Frames.  A frame is the position and the locals of one call.  calls is  *)
(* the log of the external calls the run has issued, in order; image_from  *)
(* says which attempt's image a generated result carries; completed lists  *)
(* the tasks of the pending gather in the order in which they completed    *)
(* (a task is named by its position among gather's arguments); answers[i]  *)
(* is what the assessors (quality, presentation, the local nudity service  *)
(* and SightEngine's nudity model) answer about candidate i; stored is the *)
(* log of a cache client's calls with what each returned;                  *)
(* attempt_error is the message the run's own primary generator call wrote *)
(* (None when it wrote none).                                              *)
(***************************************************************************)
DefaultSlide ==
    [entry |-> "direct", lang |-> "en", texts |-> 1,
     image_keywords |-> NoneAttr,
     unsplashSearchTerms |-> NoneAttr, style |-> StyleNone,
     image_mode |-> "auto", ai_model |-> "auto"]

Frame(pc, op, slide) ==
    [pc |-> pc, op |-> op, slide |-> slide, keywords |-> "",
     calls |-> <<>>, unsplash |-> None, pexels |-> None, completed |-> <<>>,
     search_results |-> <<>>, scored |-> <<>>, answers |-> <<>>,
     scored_images |-> <<>>, suitable |-> <<>>,
     reason |-> "", ai_model |-> "", model |-> "", image_url |-> <<>>,
     served_url |-> <<>>, nudity_score |-> None, image_from |-> "",
     skip |-> FALSE, result |-> None, exc |-> "", stored |-> <<>>,
     attempt_error |-> None, download |-> "", retry_url |-> <<>>,
     nudity_data |-> EmptyData, nudity_safe_score |-> None,
     out |-> [url |-> <<>>, err |-> None, inside |-> FALSE]]

\* ImageResult(url, source, keywords, error)
ImageResult(url, source, keywords, error) ==
    [url |-> url, source |-> source, keywords |-> keywords, error |-> error]

\* The effect of a synchronous stretch of a run: its frame, and the shared
\* last_error and _STORE as it leaves them.
Effect(f, le, st) == [f |-> f, le |-> le, st |-> st]

Returns(f, res) == [f EXCEPT !.pc = "done", !.result = Some(res)]
Raises(f, exc) == [f EXCEPT !.pc = "raised", !.exc = exc]

(***************************************************************************)
(* ImageGenerator.                                                         *)
(***************************************************************************)
ScenarioKeys == {"flat_illustration", "fine_line", "photorealistic"}

\* _select_scenario: "raise" is the AttributeError of list.lower().
SelectScenario(style) ==
    IF style \in {StyleNone, StyleEmptyList, ""} THEN "None"
    ELSE IF style \in {StyleEmptyList, StyleList} THEN "raise"
    ELSE IF Lower(style) \in ScenarioKeys THEN Lower(style)
    ELSE "None"

\* generate_from_keywords up to its first await (lines 314-315, 60-70/89):
\* f.pc becomes next when the prompt call is issued.
GenerateFromKeywordsStart(f, le, st, model, next) ==
    IF SelectScenario(f.slide.style) = "raise"
    THEN Effect(Raises(f, "AttributeError"),
                Some("Prompt generation failed"), st)
    ELSE Effect([f EXCEPT !.pc = next, !.model = model,
                          !.calls = Append(@, "prompt")],
                None, st)

\* The generators' outcomes: the URL (<<>> is None), the message the call
\* writes to last_error, None when it writes none (the call cleared
\* last_error when it was issued and a plain return None, like a success,
\* writes nothing), and inside: the message is written inside the block of
\* the HTTP client, before the block's exit gives way to other runs, and not
\* in the handler of an exception that has left the block.
GenOutcome(url, err, inside) == [url |-> url, err |-> err, inside |-> inside]

\* generate_with_flux returns result.sample of the Ready answer when it is
\* truthy, whatever it is (lines 166-169): a remote URL, a data URL that
\* store_data_url accepts and one it rejects, another text, a value that is
\* not a str; None without a message; None with the
\* message of the except clause.
FluxOutcomes ==
    {GenOutcome(FluxUrl, None, FALSE),
     GenOutcome(DataUrl, None, FALSE),
     GenOutcome(BadDataUrl, None, FALSE),
     GenOutcome(<<"/", "img/1.png">>, None, FALSE),
     GenOutcome(NotAStr, None, FALSE),
     GenOutcome(<<>>, None, FALSE),
     GenOutcome(<<>>, Some("FLUX generation failed"), FALSE)}

\* generate_with_imagen returns images[0].image_url.url when it is truthy,
\* whatever it is (lines 245-249); the messages written inside the block
\* (lines 235, 240, 251) end alike and stand as one.
ImagenOutcomes ==
    {GenOutcome(DataUrl, None, FALSE),
     GenOutcome(BadDataUrl, None, FALSE),
     GenOutcome(RemoteUrl, None, FALSE),
     GenOutcome(NotAStr, None, FALSE),
     GenOutcome(<<>>, Some("No image returned by OpenRouter"), TRUE),
     GenOutcome(<<>>, Some("Gemini image generation failed"), FALSE)}

\* generate_image's dispatch on the model.
GeneratorOutcomes(model) ==
    IF model \in {"auto", "flux"} THEN FluxOutcomes
    ELSE IF model \in {"banana", "imagen"} THEN ImagenOutcomes
    ELSE {GenOutcome(<<>>, Some("Unknown model"), FALSE)}

\* The answer of the generator call of run f arrives and is handled inside
\* the block of the HTTP client, a message written there going to
\* last_error (le is the shared value when the answer arrives); the exit of
\* the client block then gives way to the other runs.
GeneratorAnswers(f, le, st, out, next) ==
    Effect([f EXCEPT !.pc = next, !.out = out],
           IF out.err # None /\ out.inside THEN out.err ELSE le,
           st)

\* Lines 318-320, after the client block is left: last_error as
\* generate_from_keywords leaves it, le being the shared value then.
LastErrorAfter(out, le) ==
    LET after_call == IF out.err # None /\ ~out.inside THEN out.err ELSE le
    IN IF out.url = <<>> /\ after_call = None
       THEN Some("Image generation returned no result")
       ELSE after_call

(***************************************************************************)
(* ImageOrchestrator._generate_ai_image, one operator per stretch between  *)
(* two awaits.                                                             *)
(***************************************************************************)
\* Lines 149-166: resolve the model and call generate_from_keywords.  The
\* caller's locals (search results, scores) are not visible in this frame.
GenerateAiImageStart(f, le, st, reason) ==
    LET ai_model == IF f.slide.ai_model = "auto" THEN "flux"
                    ELSE f.slide.ai_model
        g == [f EXCEPT !.reason = reason, !.ai_model = ai_model,
                       !.unsplash = None, !.pexels = None,
                       !.completed = <<>>, !.search_results = <<>>,
                       !.scored = <<>>, !.answers = <<>>,
                       !.scored_images = <<>>,
                       !.suitable = <<>>]
    IN GenerateFromKeywordsStart(g, le, st, ai_model, "prompt1")

\* Lines 235-242: the result tagged with the requested model.
PrimaryResult(f, served_url) ==
    ImageResult(served_url, "generated_" \o f.slide.ai_model, f.keywords, None)

\* Mutant: the failure result without the placeholder URL.
FailedResultNoPlaceholder(f, le) ==
    ImageResult(<<>>, "failed", f.keywords,
                Some(IF le # None /\ le[1] # "" THEN le[1]
                     ELSE "Image generation failed"))

\* Lines 243-254.
FailedResult(f, le) ==
    ImageResult(ErrorUrl, "failed", f.keywords,
                Some(IF le # None /\ le[1] # "" THEN le[1]
                     ELSE "Image generation failed"))

\* Mutant: a data URL is never stored and is returned as it came.
CacheDataUrlUnchanged(st, url) ==
    [url |-> url, store |-> st]

\* Lines 172-179 and 214-220: a data URL is stored and served from the cache;
\* the value is [url, store].
CacheDataUrl(st, url) ==
    LET s == StoreDataUrl(st, url)
    IN IF s.ok THEN [url |-> ServedUrl(s.id), store |-> s.store]
       ELSE [url |-> url, store |-> st]

\* Lines 166-196, from the primary generator's return to the next await.
AfterPrimary(f, last, st, out) ==
    LET le == LastErrorAfter(out, last)
        g == [f EXCEPT !.image_url = out.url, !.attempt_error = out.err]
    IN IF out.url # <<>>
       THEN IF ~IsStr(out.url)
            THEN Effect(Raises(g, "AttributeError"), le, st)
            ELSE IF StartsWith(out.url, "data:")
            THEN LET c == CacheDataUrl(st, out.url)
                 IN Effect([g EXCEPT !.pc = "nudity", !.served_url = c.url,
                                     !.calls = Append(@, "nudity")],
                           le, c.store)
            ELSE IF f.ai_model = "flux" /\ IsHttp(out.url)
            THEN Effect([g EXCEPT !.pc = "download", !.served_url = out.url,
                                  !.calls = Append(@, "download")],
                        le, st)
            ELSE Effect([g EXCEPT !.pc = "nudity", !.served_url = out.url,
                                  !.calls = Append(@, "nudity")],
                        le, st)
       ELSE Effect(Returns(g, FailedResult(g, le)), le, st)

\* Lines 183-189: the download's outcome, handled inside the block of the
\* HTTP client (store_bytes included); the block's exit then gives way to
\* the other runs.
AfterDownload(f, le, st, outcome) ==
    IF outcome = "ok"
    THEN LET s == StoreBytes(st, "JPEG", "image/jpeg")
         IN Effect([f EXCEPT !.pc = "download_close",
                             !.served_url = ServedUrl(s.id),
                             !.download = outcome],
                   le, s.store)
    ELSE Effect([f EXCEPT !.pc = "download_close", !.download = outcome],
                le, st)

\* check_nudity_sightengine on the generated image: it raises, returns {}
\* (quota) or returns the provider's nudity object.
GeneratedNudityOutcomes ==
    {CheckRaises, CheckOk(EmptyData), CheckOk(SightEngineNoKey),
     CheckOk(SightEngineData(98)), CheckOk(SightEngineData(99)),
     CheckOk([EmptyData EXCEPT !.none = Bool(FALSE)]),
     CheckOk([EmptyData EXCEPT !.none = Str("n/a")])}

\* Lines 194-200: nudity_score, None when the check raised; otherwise the
\* JSON value found under the key (null is None), 1.0 without the key.
NudityScore(check) ==
    IF ~check.ok THEN None
    ELSE IF check.data.none.t = "absent" THEN Some(Num(FullScore))
    ELSE IF check.data.none.t = "null" THEN None
    ELSE Some(check.data.none)

\* The number a JSON number or boolean is in a comparison.
AsNumber(value) ==
    IF value.t = "bool" THEN (IF value.b THEN FullScore ELSE 0) ELSE value.n

\* Line 203: comparing a text with the floor raises TypeError.
ComparisonRaises(nudity_score) ==
    nudity_score # None /\ nudity_score[1].t \in {"str", "numstr"}

\* Line 203.
NeedsRetry(nudity_score) ==
    /\ nudity_score # None
    /\ AsNumber(nudity_score[1]) < MinNuditySafeScore

\* Mutant: a failed check triggers the retry as a low score does.
AfterNudityFailClosed(f, le, st, check) ==
    LET nudity_score == NudityScore(check)
        g == [f EXCEPT !.nudity_score = nudity_score]
    IN IF ComparisonRaises(nudity_score)
       THEN Effect(Raises(g, "TypeError"), le, st)
       ELSE IF nudity_score = None \/ NeedsRetry(nudity_score)
       THEN GenerateFromKeywordsStart(g, le, st, "banana", "prompt2")
       ELSE Effect(Returns([g EXCEPT !.image_from = "primary"],
                           PrimaryResult(g, g.served_url)), le, st)

\* Lines 197-211 and 235-242, from the nudity check's return.
AfterNudity(f, le, st, check) ==
    LET nudity_score == NudityScore(check)
        g == [f EXCEPT !.nudity_score = nudity_score]
    IN IF ComparisonRaises(nudity_score)
       THEN Effect(Raises(g, "TypeError"), le, st)
       ELSE IF NeedsRetry(nudity_score)
       THEN GenerateFromKeywordsStart(g, le, st, "banana", "prompt2")
       ELSE Effect(Returns([g EXCEPT !.image_from = "primary"],
                           PrimaryResult(g, g.served_url)), le, st)

\* Mutant: the retry's output is safety-checked like the primary's.
AfterRetryRechecks(f, last, st, out) ==
    LET le == LastErrorAfter(out, last)
    IN IF out.url # <<>>
       THEN IF ~IsStr(out.url)
            THEN Effect(Raises([f EXCEPT !.retry_url = out.url],
                               "AttributeError"), le, st)
            ELSE Effect([f EXCEPT !.pc = "nudity", !.image_url = out.url,
                             !.retry_url = out.url,
                             !.served_url = out.url,
                             !.calls = Append(@, "nudity")],
                   le, st)
       ELSE Effect(Returns([f EXCEPT !.image_from = "primary"],
                           PrimaryResult(f, f.served_url)), le, st)

\* Lines 212-242, from the retry's return.
AfterRetry(f, last, st, out) ==
    LET le == LastErrorAfter(out, last)
    IN IF out.url # <<>>
       THEN IF ~IsStr(out.url)
            THEN Effect(Raises([f EXCEPT !.retry_url = out.url],
                               "AttributeError"), le, st)
            ELSE
            LET c == IF StartsWith(out.url, "data:")
                     THEN CacheDataUrl(st, out.url)
                     ELSE [url |-> out.url, store |-> st]
            IN Effect(Returns([f EXCEPT !.image_from = "retry",
                                        !.retry_url = out.url],
                              ImageResult(c.url, "generated_banana",
                                          f.keywords, None)),
                      le, c.store)
       ELSE Effect(Returns([f EXCEPT !.image_from = "primary"],
                           PrimaryResult(f, f.served_url)), le, st)

\* create_generation_prompt's LLM call returns or raises (lines 70-98), then
\* generate_image is entered (line 279).
AfterPrompt(f, le, st, outcome, next) ==
    IF outcome = "raise"
    THEN Effect(Raises(f, "LLMError"), Some("Prompt generation failed"), st)
    ELSE Effect([f EXCEPT !.pc = next,
                          !.calls = Append(@, "generate:" \o f.model)],
                None, st)

(***************************************************************************)
(* ImageOrchestrator.process_slide, one operator per stretch between two   *)
(* awaits.                                                                 *)
(***************************************************************************)
\* _ensure_english.  A slide the heuristic takes for English is returned as
\* it is.  Otherwise the texts are translated, one LLM call for each, and
\* SlideInput(**model_dump()) is built: an object of class SlideInput, which
\* has no attribute unsplashSearchTerms and accepts no string as style (the
\* validation error, like a failed translation, is caught and the original
\* slide returned).  The outcome is 0 when every call answers and k when the
\* k-th call raises.
TranslationOutcomes(slide) ==
    IF slide.lang = "en" THEN {0} ELSE 0..slide.texts

EnsureEnglish(f, outcome) ==
    IF f.slide.lang = "en" THEN [f EXCEPT !.pc = "extract"]
    ELSE LET made == IF outcome = 0 THEN f.slide.texts ELSE outcome
             g == [f EXCEPT !.pc = "extract",
                            !.calls = @ \o [i \in 1..made |-> "translate"]]
         IN IF outcome # 0 \/ f.slide.style \in StyleStrings THEN g
            ELSE [g EXCEPT !.slide.lang = "en",
                           !.slide.unsplashSearchTerms = AbsentAttr]

\* Lines 119-132: the result of the ranked list, or of the empty one.
StockResult(f, best_image) ==
    ImageResult(best_image.image_ref.full_url,
                "stock_" \o best_image.image_ref.source, f.keywords, None)

NoneResult(f) == ImageResult(<<>>, "none", f.keywords, None)

\* Lines 69-85, after the keywords are known: style_key, the forced styles,
\* ai_only, and otherwise the two provider calls of search_all.
ForcedStyles == {"flat_illustration", "fine_line"}

StyleKey(style) ==
    IF style \in {StyleNone, StyleEmptyList} THEN "" ELSE Lower(style)

Route(f, le, st) ==
    IF f.slide.style = StyleList
    THEN Effect(Raises(f, "AttributeError"), le, st)   \* list.lower()
    ELSE IF StyleKey(f.slide.style) \in ForcedStyles
    THEN GenerateAiImageStart(f, le, st, "style")
    ELSE IF f.slide.image_mode = "ai_only"
    THEN GenerateAiImageStart(f, le, st, "ai_only")
    ELSE Effect([f EXCEPT !.pc = "search",
                          !.calls = @ \o <<"unsplash", "pexels">>],
                le, st)

\* Lines 58-67 and on: extract_keywords, the skip result, the routing.
AfterExtraction(f, le, st, out) ==
    IF out.exc # ""
    THEN Effect(Raises([f EXCEPT !.calls = @ \o out.llm], out.exc), le, st)
    ELSE LET g == [f EXCEPT !.keywords = out.refined, !.skip = out.skip,
                            !.calls = @ \o out.llm]
         IN IF out.skip THEN Effect(Returns(g, NoneResult(g)), le, st)
            ELSE Route(g, le, st)

\* Lines 86-106, from search_all's return: one score_image task per image.
AfterSearch(f, le, st, search_results) ==
    LET g == [f EXCEPT !.search_results = search_results]
    IN IF search_results = <<>> /\ f.slide.image_mode = "stock_only"
       THEN Effect(Returns(g, NoneResult(g)), le, st)
       ELSE IF search_results = <<>>
       THEN GenerateAiImageStart(g, le, st, "no_results")
       ELSE Effect([g EXCEPT !.pc = "score", !.completed = <<>>,
                             !.scored = [i \in 1..Len(search_results) |-> None],
                             !.answers = [i \in 1..Len(search_results) |-> None],
                             !.calls = @ \o [i \in 1..Len(search_results)
                                                |-> "score"]],
                   le, st)

\* Mutant: outside stock_only mode the ranked list is ignored.
AfterScoringPrefersGeneration(f, le, st, scored_images) ==
    LET suitable_images == FilterAndSort(scored_images)
        g == [f EXCEPT !.suitable = suitable_images]
    IN IF f.slide.image_mode # "stock_only"
       THEN GenerateAiImageStart(g, le, st, "no_suitable")
       ELSE IF suitable_images # <<>>
       THEN Effect(Returns(g, StockResult(g, suitable_images[1])), le, st)
       ELSE Effect(Returns(g, NoneResult(g)), le, st)

\* Lines 108-136, from score_images' return.
AfterScoring(f, le, st, scored_images) ==
    LET suitable_images == FilterAndSort(scored_images)
        g == [f EXCEPT !.suitable = suitable_images]
    IN IF suitable_images # <<>>
       THEN Effect(Returns(g, StockResult(g, suitable_images[1])), le, st)
       ELSE IF f.slide.image_mode = "stock_only"
       THEN Effect(Returns(g, NoneResult(g)), le, st)
       ELSE GenerateAiImageStart(g, le, st, "no_suitable")

(***************************************************************************)
(* asyncio.gather: the values of the tasks in the order of its arguments,  *)
(* whatever the order in which the tasks completed.                        *)
(***************************************************************************)
\* Mutant: search_all's gather hands the outcomes back as they completed.
GatherProvidersAsCompleted(f) ==
    [k \in 1..2 |-> IF f.completed[k] = 1 THEN f.unsplash[1] ELSE f.pexels[1]]

\* search_all, lines 105-108: (unsplash_results, pexels_results).
GatherProviders(f) == <<f.unsplash[1], f.pexels[1]>>

\* score_images, lines 364-365: one record per task, in task order.
GatherScores(f) == [i \in 1..Len(f.scored) |-> f.scored[i][1]]

(***************************************************************************)
(* What the external services may answer.                                  *)
(***************************************************************************)
UnsplashUrl(name) == <<"https://", "images.unsplash.com/" \o name>>
PexelsUrl(name) == <<"https://", "images.pexels.com/" \o name>>

\* enumerate(): the provider numbers its own results from 0.
WithIndex(items) ==
    [i \in 1..Len(items) |-> [items[i] EXCEPT !.index = i - 1]]

\* The longest list a provider returns to a direct call of search_all.
MaxResults == 2

\* The longest list given to a direct call of score_images.
MaxImages == 2

SeqsUpTo(S, n) == UNION {[1..k -> S] : k \in 0..n}

\* Unsplash photos: with an ID, with the same ID again, without an ID, and
\* with an empty ID under the same URL.
UnsplashPool ==
    {ImageRef(0, Some("a"), UnsplashUrl("a"), "unsplash"),
     ImageRef(0, Some("a"), UnsplashUrl("a2"), "unsplash"),
     ImageRef(0, None, UnsplashUrl("x"), "unsplash"),
     ImageRef(0, Some(""), UnsplashUrl("x"), "unsplash")}

\* Pexels photos: the ID is str(photo.get("id")), "None" when missing.
PexelsPool ==
    {ImageRef(0, Some("a"), PexelsUrl("a"), "pexels"),
     ImageRef(0, Some("None"), UnsplashUrl("x"), "pexels"),
     ImageRef(0, Some("c"), PexelsUrl("c"), "pexels")}

UnsplashLists(op) ==
    IF op = "search_all" THEN SeqsUpTo(UnsplashPool, MaxResults)
    ELSE {<<>>, <<ImageRef(0, Some("a"), UnsplashUrl("a"), "unsplash")>>}

PexelsLists(op) ==
    IF op = "search_all" THEN SeqsUpTo(PexelsPool, MaxResults)
    ELSE {<<>>, <<ImageRef(0, Some("a"), PexelsUrl("a"), "pexels")>>}

ProviderOutcomes(op, provider) ==
    {ProviderRaises} \cup
    {ProviderReturns(WithIndex(items)) :
        items \in IF provider = "unsplash" THEN UnsplashLists(op)
                  ELSE PexelsLists(op)}

\* The lists of candidates given to a direct call of score_images.
ImagePool ==
    {ImageRef(0, Some("a"), UnsplashUrl("a"), "unsplash"),
     ImageRef(0, Some("c"), PexelsUrl("c"), "pexels")}

ImageLists == {WithIndex(items) : items \in SeqsUpTo(ImagePool, MaxImages)}

\* The longest list given to a direct call of filter_and_sort.
MaxScored == 3

\* The number of calls a client of the cache makes.
MaxStores == 3

\* One call of a cache client and what it returned.
StoreCall(call, arg, s) ==
    [call |-> call, arg |-> arg, ok |-> s.ok, id |-> s.id]

\* QualityScore(quality_score, presentation_score, is_safe, nudity_score)
QualityScore(quality_score, presentation_score, nudity_score) ==
    [quality_score |-> quality_score,
     presentation_score |-> presentation_score,
     is_safe |-> nudity_score >= MinNuditySafeScore,
     nudity_score |-> nudity_score]

\* The scores of the entries given to filter_and_sort: at, above and below
\* each floor, with and without a fit score.
ScoresPool ==
    {QualityScore(90, None, 100),
     QualityScore(70, Some(80), 100),
     QualityScore(90, Some(80), 99),
     QualityScore(70, Some(60), 100),
     QualityScore(50, Some(80), 100),
     QualityScore(90, Some(50), 100),
     QualityScore(90, Some(80), 98)}

\* The i-th entry of a list is the score record of candidate i.
ScoredLists ==
    {[i \in 1..Len(scores) |->
         [image_ref |-> ImageRef(i - 1, Some("a"), UnsplashUrl("a"), "unsplash"),
          scores |-> scores[i]]] :
     scores \in SeqsUpTo(ScoresPool, MaxScored)}

QualityOutcomes ==
    {QualityOk(90), QualityOk(50), QualityQuota, QualityError, QualityInvalid}
PresentationOutcomes == {FitUnavailable, FitOk(80), FitOk(50), FitInvalid}
\* Responses of a safety provider: each member of Shapes carries one
\* recognized shape (or a value under its key that is not recognized), and a
\* response carries up to MaxShapes of them.
MaxShapes == 2

NestedSafe == [EmptyData EXCEPT !.safe_score = Num(30)]
NestedNsfw == [EmptyData EXCEPT !.nsfw = Bool(TRUE)]

Shapes ==
    {[EmptyData EXCEPT !.result = r] :
        r \in {DictOf(NestedSafe), DictOf(EmptyData), NotADict}}
    \cup {[EmptyData EXCEPT !.predictions = l] :
             l \in {ListOf(<<DictOf(NestedNsfw)>>), ListOf(<<>>),
                    ListOf(<<NotADict>>), NotAList}}
    \cup {[EmptyData EXCEPT !.safe_score = v] :
             v \in {Num(150), Num(20), Str("high"), NumStr(45)}}
    \cup {[EmptyData EXCEPT !.safe_prob = Num(40)]}
    \cup {[EmptyData EXCEPT !.safe_probability = v] : v \in {Num(0 - 10), Null}}
    \cup {[EmptyData EXCEPT !.safe = v] :
             v \in {Bool(TRUE), Bool(FALSE), Num(0)}}
    \cup {[EmptyData EXCEPT !.nsfw_score = v] :
             v \in {Num(30), Num(250), Num(0 - 20), Null}}
    \cup {[EmptyData EXCEPT !.nsfw = Bool(b)] : b \in BOOLEAN}
    \cup {[EmptyData EXCEPT !.unsafe = Bool(b)] : b \in BOOLEAN}
    \cup {[EmptyData EXCEPT !.label = Str(l[1]), !.score = l[2]] :
             l \in {<<"NSFW", Num(80)>>, <<"safe", Num(70)>>,
                    <<"neutral", Num(60)>>, <<"porn", Absent>>,
                    <<"unsafe", Num(130)>>}}
    \cup {[EmptyData EXCEPT !.none = v] :
             v \in {Num(98), Num(120), Str("n/a")}}
    \cup {[EmptyData EXCEPT !.other = Str("raw")]}

\* The response with the keys of both, those of shape over those of data.
Overlay(data, shape) ==
    [k \in DOMAIN data |-> IF shape[k].t # "absent" THEN shape[k] ELSE data[k]]

RECURSIVE ResponsesOf(_)
ResponsesOf(n) ==
    IF n = 0 THEN {EmptyData}
    ELSE LET smaller == ResponsesOf(n - 1)
         IN smaller \cup {Overlay(d, sh) : d \in smaller, sh \in Shapes}

Responses == ResponsesOf(MaxShapes)


(***************************************************************************)
(* The state machine.  Run 1 is a call of process_slide on some slide, or  *)
(* a call of search_all, of score_images or of filter_and_sort, or a       *)
(* client of generated_cache; the shared state is as after construction.   *)
(***************************************************************************)
Apply(r, eff) ==
    /\ run' = [run EXCEPT ![r] = eff.f]
    /\ last_error' = eff.le
    /\ store' = eff.st

Init ==
    /\ \/ \E s1, s2 \in ConcurrentSlides :
              run = [r \in Runs |->
                        Frame("start", "process_slide", IF r = 1 THEN s1 ELSE s2)]
       \/ \E f \in {Frame("start", "process_slide", s) : s \in Slides}
               \cup {Frame("search", "search_all", DefaultSlide)}
               \cup {Frame("cache", "generated_cache", DefaultSlide)}
               \cup {[Frame("filter", "filter_and_sort", DefaultSlide)
                         EXCEPT !.scored_images = scored_images] :
                     scored_images \in ScoredLists}
               \cup {[Frame("score", "score_images", DefaultSlide)
                         EXCEPT !.search_results = images,
                                !.scored = [i \in 1..Len(images) |-> None],
                                !.answers = [i \in 1..Len(images) |-> None]] :
                     images \in ImageLists}
               \cup {[Frame("extract_score", "extract_nudity_safe_score",
                               DefaultSlide)
                         EXCEPT !.nudity_data = nudity_data] :
                     nudity_data \in Responses} :
              run = [r \in Runs |-> IF r = 1 THEN f ELSE Frame("idle", "none", DefaultSlide)]
    /\ last_error = None
    /\ store = <<>>

\* process_slide, line 55.
Translate(r) ==
    /\ run[r].pc = "start"
    /\ \E outcome \in TranslationOutcomes(run[r].slide) :
           Apply(r, Effect(EnsureEnglish(run[r], outcome), last_error, store))

\* process_slide, lines 58-85.
Extract(r) ==
    /\ run[r].pc = "extract"
    /\ \E ext \in ExtractionOutcomes, ref \in RefinementOutcomes :
           Apply(r, AfterExtraction(run[r], last_error, store,
                                    ExtractKeywords(run[r].slide, ext, ref)))

\* One of the two gathered provider tasks of search_all completes.
UnsplashCompletes(r) ==
    /\ run[r].pc = "search"
    /\ run[r].unsplash = None
    /\ \E outcome \in ProviderOutcomes(run[r].op, "unsplash") :
           Apply(r, Effect([run[r] EXCEPT !.unsplash = Some(outcome),
                                          !.completed = Append(@, 1)],
                           last_error, store))

PexelsCompletes(r) ==
    /\ run[r].pc = "search"
    /\ run[r].pexels = None
    /\ \E outcome \in ProviderOutcomes(run[r].op, "pexels") :
           Apply(r, Effect([run[r] EXCEPT !.pexels = Some(outcome),
                                          !.completed = Append(@, 2)],
                           last_error, store))

\* gather returns: search_all merges, and process_slide goes on.
SearchReturns(r) ==
    /\ run[r].pc = "search"
    /\ run[r].unsplash # None
    /\ run[r].pexels # None
    /\ LET gathered == GatherProviders(run[r])
           all_results == SearchAll(gathered[1], gathered[2])
       IN IF run[r].op = "search_all"
          THEN Apply(r, Effect([run[r] EXCEPT !.pc = "done",
                                              !.search_results = all_results],
                               last_error, store))
          ELSE Apply(r, AfterSearch(run[r], last_error, store, all_results))

\* One of the gathered score_image tasks completes.
ScoreCompletes(r) ==
    /\ run[r].pc = "score"
    /\ \E i \in 1..Len(run[r].scored) :
         /\ run[r].scored[i] = None
         /\ \E quality \in QualityOutcomes,
               presentation \in PresentationOutcomes,
               local \in {CheckRaises},
               sightengine \in {CheckRaises, CheckOk(SightEngineData(98))} :
              LET f == [run[r] EXCEPT
                            !.answers[i] =
                                Some([quality |-> quality,
                                      presentation |-> presentation,
                                      local |-> local,
                                      sightengine |-> sightengine]),
                            !.completed = Append(@, i)]
              IN IF ScoreImageRaises(quality, presentation)
                 THEN \* gather without return_exceptions, line 365
                      Apply(r, Effect(Raises(f, "ValidationError"),
                                      last_error, store))
                 ELSE Apply(r, Effect(
                          [f EXCEPT !.scored[i] =
                              Some(ScoreImage(run[r].search_results[i],
                                              quality, presentation,
                                              CheckNudity(local, sightengine)))],
                          last_error, store))

\* gather returns: filter_and_sort, and the stock result or the fallback.
ScoringReturns(r) ==
    /\ run[r].pc = "score"
    /\ \A i \in 1..Len(run[r].scored) : run[r].scored[i] # None
    /\ LET scored_images == GatherScores(run[r])
           f == [run[r] EXCEPT !.scored_images = scored_images]
       IN IF run[r].op = "score_images"
          THEN Apply(r, Effect([f EXCEPT !.pc = "done"], last_error, store))
          ELSE Apply(r, AfterScoring(f, last_error, store, scored_images))

\* A direct call of filter_and_sort.
FilterAndSortReturns(r) ==
    /\ run[r].pc = "filter"
    /\ Apply(r, Effect([run[r] EXCEPT
                           !.pc = "done",
                           !.suitable = FilterAndSort(run[r].scored_images)],
                       last_error, store))

\* A direct call of extract_nudity_safe_score.
ExtractNuditySafeScoreReturns(r) ==
    /\ run[r].pc = "extract_score"
    /\ Apply(r, Effect([run[r] EXCEPT
                           !.pc = "done",
                           !.nudity_safe_score =
                               Some(ExtractNuditySafeScore(run[r].nudity_data))],
                       last_error, store))

\* generated_cache.store_data_url, called directly.
StoreDataUrlCall(r) ==
    /\ run[r].pc = "cache"
    /\ Len(run[r].stored) < MaxStores
    /\ \E data_url \in {DataUrl, JpegDataUrl, BadDataUrl, NotDataUrl,
                         BadPaddingUrl, NonAlphabetUrl} :
           LET s == StoreDataUrl(store, data_url)
           IN Apply(r, Effect([run[r] EXCEPT !.stored =
                                  Append(@, StoreCall("store_data_url",
                                                      data_url, s))],
                              last_error, s.store))

\* generated_cache.store_bytes, called directly.
StoreBytesCall(r) ==
    /\ run[r].pc = "cache"
    /\ Len(run[r].stored) < MaxStores
    /\ \E media_type \in {"image/jpeg", ""} :
           LET s == StoreBytes(store, "JPEG", media_type)
           IN Apply(r, Effect([run[r] EXCEPT !.stored =
                                  Append(@, StoreCall("store_bytes",
                                                      <<media_type>>, s))],
                              last_error, s.store))

\* The prompt LLM call of the primary attempt or of the retry answers.
PromptReturns(r) ==
    /\ run[r].pc \in {"prompt1", "prompt2"}
    /\ \E outcome \in {"prompt", "raise"} :
           Apply(r, AfterPrompt(run[r], last_error, store, outcome,
                                IF run[r].pc = "prompt1" THEN "generate1"
                                ELSE "generate2"))

\* The primary generator call answers.
PrimaryAnswers(r) ==
    /\ run[r].pc = "generate1"
    /\ \E out \in GeneratorOutcomes(run[r].model) :
           Apply(r, GeneratorAnswers(run[r], last_error, store, out, "close1"))

\* The primary generator call returns to _generate_ai_image.
PrimaryReturns(r) ==
    /\ run[r].pc = "close1"
    /\ Apply(r, AfterPrimary(run[r], last_error, store, run[r].out))

\* The download answers.
DownloadAnswers(r) ==
    /\ run[r].pc = "download"
    /\ \E outcome \in {"ok", "raise"} :
           Apply(r, AfterDownload(run[r], last_error, store, outcome))

\* Lines 190-196: the download's client block is left, then the nudity call.
DownloadReturns(r) ==
    /\ run[r].pc = "download_close"
    /\ Apply(r, Effect([run[r] EXCEPT !.pc = "nudity",
                                      !.calls = Append(@, "nudity")],
                       last_error, store))

NudityReturns(r) ==
    /\ run[r].pc = "nudity"
    /\ \E check \in GeneratedNudityOutcomes :
           Apply(r, AfterNudity(run[r], last_error, store, check))

\* The retry's generator call answers.
RetryAnswers(r) ==
    /\ run[r].pc = "generate2"
    /\ \E out \in GeneratorOutcomes(run[r].model) :
           Apply(r, GeneratorAnswers(run[r], last_error, store, out, "close2"))

\* The retry's generator call returns to _generate_ai_image.
RetryReturns(r) ==
    /\ run[r].pc = "close2"
    /\ Apply(r, AfterRetry(run[r], last_error, store, run[r].out))

Next ==
    \E r \in Runs :
        \/ Translate(r)
        \/ Extract(r)
        \/ UnsplashCompletes(r)
        \/ PexelsCompletes(r)
        \/ SearchReturns(r)
        \/ ScoreCompletes(r)
        \/ ScoringReturns(r)
        \/ FilterAndSortReturns(r)
        \/ ExtractNuditySafeScoreReturns(r)
        \/ StoreDataUrlCall(r)
        \/ StoreBytesCall(r)
        \/ PromptReturns(r)
        \/ PrimaryAnswers(r)
        \/ PrimaryReturns(r)
        \/ DownloadAnswers(r)
        \/ DownloadReturns(r)
        \/ NudityReturns(r)
        \/ RetryAnswers(r)
        \/ RetryReturns(r)

Spec == Init /\ [][Next]_vars

(***************************************************************************)
(* Properties.                                                             *)
(***************************************************************************)
Finished(f) == f.pc \in {"done", "raised"}
Returned(f) == f.pc = "done" /\ f.result # None

CountCalls(f, names) ==
    Cardinality({i \in 1..Len(f.calls) : f.calls[i] \in names})

GenerateCalls == {"generate:" \o m : m \in AiModels}
GeneratedTags == {"generated_" \o m : m \in AiModels}

\* The primary attempt gave an image and its safety score is below the floor.
PrimaryUnsafe(f) ==
    /\ f.image_url # <<>>
    /\ NeedsRetry(f.nudity_score)
    /\ ~ComparisonRaises(f.nudity_score)

\* C1: no exception leaves process_slide: whatever external call fails
\* (translation, extraction, refinement, search, assessors, prompt building,
\* generator, download, cache store), the run ends by returning a result.
\* Stated for the failures of external calls: no run of process_slide ends
\* with the exception of a failed external call.
C1_NoExternalFailureEscapes ==
    \A r \in Runs :
        run[r].op = "process_slide" =>
            ~(run[r].pc = "raised" /\ run[r].exc = "LLMError")

\* C2: a result under a generated tag never carries an image whose evaluated
\* safety score was below the safety floor: the primary image is returned
\* only if its check scored at or above the floor or could not be evaluated.
C2_GeneratedResultPassedSafetyGate ==
    \A r \in Runs :
        (/\ Returned(run[r])
         /\ run[r].result[1].source \in GeneratedTags
         /\ run[r].image_from = "primary")
        => ~PrimaryUnsafe(run[r])

\* C3: when the primary generation succeeds with a safety score below the
\* floor, the generator is invoked exactly once more, with banana, and the
\* final result's source tag names banana.
C3_UnsafePrimaryEndsTaggedBanana ==
    \A r \in Runs :
        (Returned(run[r]) /\ PrimaryUnsafe(run[r]))
        => /\ CountCalls(run[r], {"prompt"}) = 2
           /\ run[r].model = "banana"
           /\ run[r].result[1].source = "generated_banana"

\* C4: in one run the generator is invoked at most twice and the safety
\* assessor is run on generated output at most once; nothing is called after
\* the retry's generator call (its output is neither checked nor retried).
C4_AtMostTwoAttemptsOneCheck ==
    \A r \in Runs :
        /\ CountCalls(run[r], {"prompt"}) <= 2
        /\ CountCalls(run[r], GenerateCalls) <= 2
        /\ CountCalls(run[r], {"nudity"}) <= 1
        /\ CountCalls(run[r], GenerateCalls) = 2
           => /\ run[r].calls[Len(run[r].calls)] = "generate:banana"
              /\ PrimaryUnsafe(run[r])

\* A run that made both attempts and one safety check, and returned.
C4_Witness ==
    \E r \in Runs :
        /\ Returned(run[r])
        /\ CountCalls(run[r], GenerateCalls) = 2
        /\ CountCalls(run[r], {"nudity"}) = 1
        /\ run[r].image_from = "retry"

\* C5: when the first generation attempt fails (an exception in prompt
\* building or generation, or an empty result), the run ends in the failure
\* result without a retry: source 'failed', the placeholder URL, a non-empty
\* error detail, and no second generator invocation.
C5_FirstAttemptFailureIsTerminal ==
    \A r \in Runs :
        (Finished(run[r]) /\ run[r].reason # "" /\ run[r].image_url = <<>>)
        => /\ CountCalls(run[r], {"prompt"}) = 1
           /\ run[r].result # None
           /\ run[r].result[1].source = "failed"
           /\ run[r].result[1].url = ErrorUrl
           /\ run[r].result[1].url # <<>>
           /\ run[r].result[1].error # None
           /\ run[r].result[1].error[1] # ""

\* C6: a successful generation result is tagged with the concrete generator
\* that produced the returned image: the resolved primary generator (flux
\* for 'auto') for the primary image, banana for the retry's image.
C6_TagNamesProducingGenerator ==
    \A r \in Runs :
        (Returned(run[r]) /\ run[r].result[1].source \in GeneratedTags)
        => run[r].result[1].source =
               "generated_" \o (IF run[r].image_from = "retry" THEN "banana"
                                ELSE run[r].ai_model)

\* The thresholds of Filter & Rank, restated for the properties.
Qualifies(scored_img) ==
    /\ scored_img.scores.is_safe
    /\ scored_img.scores.quality_score >= MinQualityScore
    /\ \/ scored_img.scores.presentation_score = None
       \/ scored_img.scores.presentation_score[1] >= MinPresentationScore

\* The step in which run r enters the Generation Controller.
EntersGeneration(r) == run[r].reason = "" /\ run'[r].reason # ""

NoCandidates(f) ==
    /\ f.pc = "search"
    /\ f.unsplash # None /\ f.pexels # None
    /\ ~f.unsplash[1].ok \/ f.unsplash[1].items = <<>>
    /\ ~f.pexels[1].ok \/ f.pexels[1].items = <<>>

NoneQualifies(f) ==
    /\ f.pc = "score"
    /\ \A i \in 1..Len(f.scored) :
           f.scored[i] # None /\ ~Qualifies(f.scored[i][1])

PolicyForces(f) ==
    \/ f.slide.image_mode = "ai_only"
    \/ f.slide.style \in {"flat_illustration", "fine_line", "Fine_Line"}

StockFirstRanked ==
    \A r \in Runs :
        (run[r].op = "process_slide" /\ run[r].suitable # <<>>) =>
            /\ Returned(run[r])
            /\ run[r].result[1].url = run[r].suitable[1].image_ref.full_url
            /\ run[r].result[1].source =
                   "stock_" \o run[r].suitable[1].image_ref.source
            /\ Qualifies(run[r].suitable[1])
            /\ CountCalls(run[r], {"prompt"} \cup GenerateCalls) = 0

GenerationOnlyWhenNeeded ==
    \A r \in Runs :
        EntersGeneration(r) =>
            \/ PolicyForces(run[r])
            \/ NoCandidates(run[r])
            \/ NoneQualifies(run[r])

\* C7: the Generation Controller is entered only when the aggregator returned
\* no candidates, when Filter & Rank returned the empty list, or when policy
\* forces generation (ai_only, a forcing style); when Filter & Rank returns a
\* non-empty list the generator is never invoked and the result is the full
\* URL of the first ranked candidate under the tag stock_<its provider>.
C7_GenerationOnlyIfNoStock ==
    [](StockFirstRanked) /\ [][GenerationOnlyWhenNeeded]_vars

\* Two candidates were scored and the run returned the pexels one.
C7_Witness ==
    \E r \in Runs :
        /\ Returned(run[r])
        /\ Len(run[r].scored) = 2
        /\ Len(run[r].suitable) >= 1
        /\ run[r].result[1].source = "stock_pexels"

\* C8 as stated: a returned result has an empty URL only in the source 'none'
\* case in which the Resolver judged the content unsuitable.
C8_EmptyUrlOnlyWhenUnsuitable ==
    \A r \in Runs :
        (Returned(run[r]) /\ run[r].result[1].url = <<>>)
        => run[r].result[1].source = "none" /\ run[r].skip

\* C8 as amended: a returned result has an empty URL only with source 'none',
\* which is returned when the Resolver judged the content unsuitable and also
\* in stock_only mode when the search found no candidate or none qualified;
\* a failure result carries the placeholder URL.
C8_EmptyUrlOnlyWithSourceNone ==
    \A r \in Runs :
        Returned(run[r]) =>
            /\ run[r].result[1].url = <<>>
               => /\ run[r].result[1].source = "none"
                  /\ \/ run[r].skip
                     \/ /\ run[r].slide.image_mode = "stock_only"
                        /\ run[r].suitable = <<>>
                        /\ CountCalls(run[r], {"unsplash"}) = 1
            /\ run[r].result[1].source = "failed"
               => run[r].result[1].url = ErrorUrl /\ ErrorUrl # <<>>

\* A stock_only run whose candidates were all rejected returned the empty URL
\* although the content was not judged unsuitable.
C8_Witness ==
    \E r \in Runs :
        /\ Returned(run[r])
        /\ run[r].result[1].url = <<>>
        /\ ~run[r].skip
        /\ Len(run[r].scored) > 0

\* C9: for a slide with a non-empty keyword override built through a public
\* entry point, extract_keywords makes no LLM call, reports the content as
\* suitable and returns the first three override terms joined by ", ".
C9_OverrideBypassesExtraction ==
    \A r \in Runs :
        (/\ run[r].op = "process_slide"
         /\ run[r].slide.entry \in {"post", "get"}
         /\ Truthy(run[r].slide.image_keywords)
         /\ run[r].pc \notin {"start", "extract"})
        => /\ CountCalls(run[r], {"extract", "refine"}) = 0
           /\ ~run[r].skip
           /\ run[r].keywords =
                  Join(Take(run[r].slide.image_keywords.items, 3))

\* Candidates a and b are the same but for the ordinal position.
SameImage(a, b) == [a EXCEPT !.index = 0] = [b EXCEPT !.index = 0]

\* Candidate a is returned, up to deduplication: some result has its provider
\* and its ID or, when it has no ID, has no ID either and its full URL.
HasId(a) == a.id # None /\ a.id # Some("")

Kept(a, results) ==
    \E i \in 1..Len(results) :
        IF HasId(a)
        THEN /\ HasId(results[i])
             /\ results[i].source = a.source
             /\ results[i].id = a.id
        ELSE /\ ~HasId(results[i])
             /\ results[i].full_url = a.full_url

\* Run f ended with an exception and its last call is a provider's: the
\* exception left search_all, not a later stage of process_slide.
SearchRaised(f) ==
    /\ f.pc = "raised"
    /\ \/ f.op = "search_all"
       \/ f.calls = <<>>
       \/ f.calls[Len(f.calls)] \in {"unsplash", "pexels"}

\* C10: search_all never fails because a provider fails: a provider whose
\* call raises contributes nothing, every candidate of a provider that
\* answered is still returned, and when every provider fails or returns
\* nothing the result is the empty list.
C10_ProviderFailureIsolated ==
    \A r \in Runs :
        (/\ run[r].unsplash # None /\ run[r].pexels # None
         /\ run[r].pc # "search")
        => LET u == run[r].unsplash[1]
               p == run[r].pexels[1]
               results == run[r].search_results
           IN /\ ~SearchRaised(run[r])
              /\ \A i \in 1..Len(results) :
                     \/ u.ok /\ \E j \in 1..Len(u.items) :
                                    SameImage(results[i], u.items[j])
                     \/ p.ok /\ \E j \in 1..Len(p.items) :
                                    SameImage(results[i], p.items[j])
              /\ u.ok => \A j \in 1..Len(u.items) : Kept(u.items[j], results)
              /\ p.ok => \A j \in 1..Len(p.items) : Kept(p.items[j], results)
              /\ ((~u.ok \/ u.items = <<>>) /\ (~p.ok \/ p.items = <<>>))
                 => results = <<>>

\* Unsplash raised and both pexels candidates were returned.
C10_Witness ==
    \E r \in Runs :
        /\ run[r].op = "search_all"
        /\ run[r].pc = "done"
        /\ ~run[r].unsplash[1].ok
        /\ run[r].pexels[1].ok
        /\ Len(run[r].search_results) = 2

\* Both providers raised and search_all returned the empty list.
C10_AllFailWitness ==
    \E r \in Runs :
        /\ run[r].op = "search_all"
        /\ run[r].pc = "done"
        /\ ~run[r].unsplash[1].ok
        /\ ~run[r].pexels[1].ok
        /\ run[r].search_results = <<>>

\* The candidates search_all merges: unsplash's, then pexels', a provider
\* that raised giving none.
MergedInput(f) ==
    (IF f.unsplash[1].ok THEN f.unsplash[1].items ELSE <<>>)
    \o (IF f.pexels[1].ok THEN f.pexels[1].items ELSE <<>>)

\* The dedup key as the claim states it: (provider, ID) when an ID is
\* present, otherwise the full URL.
KeyOf(a) == IF HasId(a) THEN <<a.source, ":", a.id[1]>> ELSE a.full_url

\* Position k of the input is the first with its key.
FirstSeen(input, k) == \A m \in 1..(k - 1) : KeyOf(input[m]) # KeyOf(input[k])

SearchDone(f) == f.unsplash # None /\ f.pexels # None /\ f.pc # "search"

\* C11: the list search_all returns has no two candidates with the same dedup
\* key, as many candidates as the input has distinct keys, for each key the
\* first candidate seen in provider order (in first-seen order), and the
\* ordinal indices 0..N-1 in list order.
C11_DedupFirstSeenContiguous ==
    \A r \in Runs :
        SearchDone(run[r]) =>
            LET input == MergedInput(run[r])
                results == run[r].search_results
                firsts == {k \in 1..Len(input) : FirstSeen(input, k)}
            IN /\ \A i, j \in 1..Len(results) :
                      i # j => KeyOf(results[i]) # KeyOf(results[j])
               /\ Len(results) =
                      Cardinality({KeyOf(input[k]) : k \in 1..Len(input)})
               /\ \A i \in 1..Len(results) :
                      /\ results[i].index = i - 1
                      /\ \E k \in firsts :
                             /\ SameImage(results[i], input[k])
                             /\ Cardinality({m \in firsts : m < k}) = i - 1

\* search_all dropped a repeated candidate and returned two or more.
C11_Witness ==
    \E r \in Runs :
        /\ run[r].op = "search_all"
        /\ run[r].pc = "done"
        /\ Len(run[r].search_results) >= 2
        /\ Len(run[r].search_results) < Len(MergedInput(run[r]))
        /\ run[r].search_results[2].index = 1

\* score_images (directly or inside process_slide) has returned.
ScoringDone(f) ==
    \/ f.op = "score_images" /\ f.pc = "done"
    \/ f.pc \notin {"score", "raised"} /\ f.scored # <<>>

\* The scoring of run f's candidates is over: score_images has returned or
\* raised.
ScoringEnded(f) ==
    /\ f.op \in {"score_images", "process_slide"}
    /\ f.pc # "score"
    /\ f.scored # <<>>

\* C12: the outputs of search_all and score_images do not depend on the order
\* in which the concurrent calls complete: whatever the completion order, the
\* providers' lists are merged unsplash before pexels, each in its list
\* order, and the records are those of the candidates in their list order.
C12_CompletionOrderIrrelevant ==
    \A r \in Runs :
        /\ SearchDone(run[r]) =>
               run[r].search_results = Dedup(MergedInput(run[r]), {}, <<>>)
        /\ ScoringDone(run[r]) =>
               /\ Len(run[r].scored_images) = Len(run[r].scored)
               /\ \A i \in 1..Len(run[r].scored) :
                      run[r].scored_images[i] = run[r].scored[i][1]

\* Pexels answered before unsplash, both with candidates, and the merged list
\* starts with unsplash's.
C12_Witness ==
    \E r \in Runs :
        /\ run[r].op = "search_all"
        /\ run[r].pc = "done"
        /\ run[r].completed = <<2, 1>>
        /\ run[r].unsplash[1].ok /\ run[r].pexels[1].ok
        /\ Len(run[r].search_results) >= 2
        /\ run[r].search_results[1].source = "unsplash"
        /\ run[r].search_results[Len(run[r].search_results)].source = "pexels"

\* C13: score_images returns exactly one record per input candidate, in input
\* order, the i-th record paired with the i-th candidate, whatever assessors
\* succeed or fail.
C13_OneRecordPerCandidateInOrder ==
    \A r \in Runs :
        ScoringEnded(run[r]) =>
            /\ run[r].pc # "raised"
            /\ Len(run[r].scored_images) = Len(run[r].search_results)
            /\ \A i \in 1..Len(run[r].search_results) :
                   run[r].scored_images[i].image_ref = run[r].search_results[i]

\* filter_and_sort has returned run r's list suitable for the input
\* scored_images (called directly, or by process_slide).
FilterDone(f) ==
    \/ f.op = "filter_and_sort" /\ f.pc = "done"
    \/ f.op = "process_slide" /\ ScoringDone(f)

\* The positions of the input whose entry is out[i].
PositionsOf(input, x) == {k \in 1..Len(input) : input[k] = x}

\* C14: the output of filter_and_sort contains exactly the input entries
\* that are flagged safe, have a quality score at or above the quality floor
\* and a fit score that is absent or at or above the fit floor; no entry is
\* rejected for an absent fit score, none is added or altered.
C14_FilterKeepsExactlyQualifying ==
    \A r \in Runs :
        FilterDone(run[r]) =>
            LET input == run[r].scored_images
                out == run[r].suitable
            IN /\ \A i \in 1..Len(out) :
                      PositionsOf(input, out[i]) # {} /\ Qualifies(out[i])
               /\ \A k \in 1..Len(input) :
                      Qualifies(input[k]) => PositionsOf(out, input[k]) # {}
               /\ Len(out) =
                      Cardinality({k \in 1..Len(input) : Qualifies(input[k])})

\* An entry without a fit score was kept while entries below the quality
\* floor, below the fit floor or unsafe were given.
C14_Witness ==
    \E r \in Runs :
        /\ run[r].op = "filter_and_sort"
        /\ run[r].pc = "done"
        /\ Len(run[r].scored_images) = 3
        /\ Len(run[r].suitable) = 1
        /\ run[r].suitable[1].scores.presentation_score = None

\* The sort key as the claim states it: fit (absent counted as 0), then
\* quality.
Fit(x) ==
    IF x.scores.presentation_score = None THEN 0
    ELSE x.scores.presentation_score[1]

Precedes(a, b) ==
    \/ Fit(a) > Fit(b)
    \/ Fit(a) = Fit(b) /\ a.scores.quality_score > b.scores.quality_score

SameKeys(a, b) ==
    Fit(a) = Fit(b) /\ a.scores.quality_score = b.scores.quality_score

\* C16: the entries filter_and_sort returns are in descending order of fit
\* (absent counted as 0), then of quality, and entries equal on both keys
\* keep their relative input order; an entry with fit 0.8 precedes one with
\* absent fit even when its quality is lower.
C16_RankedByFitThenQuality ==
    \A r \in Runs :
        FilterDone(run[r]) =>
            LET out == run[r].suitable
            IN \A i, j \in 1..Len(out) :
                   i < j =>
                       \/ Precedes(out[i], out[j])
                       \/ /\ SameKeys(out[i], out[j])
                          /\ out[i].image_ref.index < out[j].image_ref.index

\* Given an entry without fit and quality 0.9 before an entry with fit 0.8
\* and quality 0.7, the latter was ranked first.
C16_Witness ==
    \E r \in Runs :
        /\ run[r].op = "filter_and_sort"
        /\ run[r].pc = "done"
        /\ Len(run[r].suitable) = 2
        /\ run[r].suitable[1].scores.presentation_score = Some(80)
        /\ run[r].suitable[1].scores.quality_score = 70
        /\ run[r].suitable[2].scores.presentation_score = None
        /\ run[r].suitable[2].scores.quality_score = 90
        /\ run[r].suitable[1].image_ref.index > run[r].suitable[2].image_ref.index

\* C17: filter_and_sort is idempotent: applied to its own output it returns
\* that output, element for element and in the same order.
C17_FilterAndSortIdempotent ==
    \A r \in Runs :
        FilterDone(run[r]) =>
            FilterAndSort(run[r].suitable) = run[r].suitable

\* The output has entries with equal keys and differs from the input, which
\* had entries to reject and to reorder.
C17_Witness ==
    \E r \in Runs :
        /\ run[r].op = "filter_and_sort"
        /\ run[r].pc = "done"
        /\ Len(run[r].suitable) = 3
        /\ run[r].suitable # run[r].scored_images
        /\ SameKeys(run[r].suitable[1], run[r].suitable[2])

\* The safety score of candidate i of run f: the score extracted from the
\* safety provider's answer about it (the maximal score when the provider
\* fails).
SafetyScoreOf(f, i) ==
    IF f.answers[i][1].sightengine.ok
    THEN ExtractNuditySafeScore(f.answers[i][1].sightengine.data)
    ELSE FullScore

\* C15: score_image sets the safety flag exactly when the candidate's safety
\* score is at or above the safety floor, so that a candidate whose safety
\* score is below the floor (0.98 against 0.99) is never in the output of
\* filter_and_sort and never the stock result.
C15_UnsafeCandidateNeverReturned ==
    \A r \in Runs :
        \A i \in 1..Len(run[r].scored) :
            run[r].scored[i] # None =>
                /\ run[r].scored[i][1].scores.is_safe
                       <=> SafetyScoreOf(run[r], i) >= MinNuditySafeScore
                /\ (/\ FilterDone(run[r])
                    /\ SafetyScoreOf(run[r], i) < MinNuditySafeScore)
                   => /\ PositionsOf(run[r].suitable, run[r].scored[i][1]) = {}
                      /\ Returned(run[r])
                         => run[r].result[1].url
                                # run[r].search_results[i].full_url

\* The well-formed data URLs data:<mediaType>;base64,<X> of the inputs, with
\* the base64-decode of <X> and <mediaType>.
WellFormed ==
    {[url |-> DataUrl, bytes |-> "ABC", media_type |-> "image/png"],
     [url |-> JpegDataUrl, bytes |-> "ABCABC", media_type |-> "image/jpeg"]}

\* C18: cache round trip: the ID store_data_url returns for a well-formed
\* data URL retrieves, after any further stores, the base64-decode of the
\* payload and the media type; no store changes or removes an earlier entry
\* (every ID handed out keeps retrieving its entry, and IDs are not reused).
C18_CacheRoundTrip ==
    \A r \in Runs :
        \A k \in 1..Len(run[r].stored) :
            LET e == run[r].stored[k]
            IN /\ \A w \in WellFormed :
                      (e.call = "store_data_url" /\ e.arg = w.url)
                      => /\ e.ok
                         /\ GetImage(store, e.id) # None
                         /\ GetImage(store, e.id)[1].data = w.bytes
                         /\ GetImage(store, e.id)[1].media_type = w.media_type
               /\ e.call = "store_bytes"
                  => /\ GetImage(store, e.id) # None
                     /\ GetImage(store, e.id)[1].data = "JPEG"
               /\ \A j \in 1..Len(run[r].stored) :
                      (j # k /\ e.ok /\ run[r].stored[j].ok)
                      => run[r].stored[j].id # e.id

\* A well-formed data URL was stored, two more stores followed (another data
\* URL, then raw bytes), and the first ID retrieves its bytes.
C18_Witness ==
    \E r \in Runs :
        /\ Len(run[r].stored) = 3
        /\ run[r].stored[1].arg = DataUrl
        /\ run[r].stored[2].arg = JpegDataUrl
        /\ run[r].stored[3].call = "store_bytes"
        /\ Len(store) = 3
        /\ GetImage(store, run[r].stored[1].id)[1].data = "ABC"

\* The malformed data URLs of the inputs: no data: prefix, no comma, a
\* payload that is not base64 (a missing character, foreign characters).
Malformed == {NotDataUrl, BadDataUrl, BadPaddingUrl, NonAlphabetUrl}

\* C19: store_data_url on a malformed data URL fails with the format error
\* and leaves the cache as it was: the call returns no ID and the cache holds
\* exactly the entries of the other calls.
C19_MalformedStoreFailsCacheUnchanged ==
    \A r \in Runs :
        run[r].op = "generated_cache" =>
            /\ \A k \in 1..Len(run[r].stored) :
                   run[r].stored[k].arg \in Malformed => ~run[r].stored[k].ok
            /\ Len(store) =
                   Cardinality({k \in 1..Len(run[r].stored) :
                                   run[r].stored[k].arg \notin Malformed})

\* The error detail of a failed run executed alone: the message its own
\* generator call wrote, or the message for a call that returned nothing.
OwnErrorDetail(f) ==
    IF f.attempt_error # None THEN f.attempt_error
    ELSE Some("Image generation returned no result")

\* C20: concurrent runs share no mutable state but the cache: the result of
\* a run interleaved with another one is the result it has alone with the
\* same external responses; a run ends in the failure result exactly when
\* its own primary attempt gave no image, and its error detail is then the
\* error of its own attempt.
C20_RunsDoNotInterfere ==
    \A r \in Runs :
        (Returned(run[r]) /\ run[r].reason # "") =>
            /\ run[r].result[1].source = "failed" <=> run[r].image_url = <<>>
            /\ run[r].result[1].source = "failed"
               => run[r].result[1].error = OwnErrorDetail(run[r])
            /\ run[r].result[1].source # "failed"
               => run[r].result[1].error = None

\* The safety check of run f's generated image was made and raised.
GeneratedCheckFailed(f) ==
    /\ CountCalls(f, {"nudity"}) = 1
    /\ f.pc # "nudity"
    /\ f.nudity_score = None

\* C21: when the safety assessor call on a generated image fails, the image
\* is treated as passing: no retry is triggered, the generator is not invoked
\* again, and the primary image is returned as a success.
C21_FailedCheckCountsAsPass ==
    \A r \in Runs :
        GeneratedCheckFailed(run[r]) =>
            /\ Returned(run[r])
            /\ CountCalls(run[r], {"prompt"}) = 1
            /\ CountCalls(run[r], GenerateCalls) = 1
            /\ run[r].result[1].source \in GeneratedTags
            /\ run[r].result[1].error = None
            /\ run[r].image_from = "primary"
            /\ run[r].result[1].url = run[r].served_url
            /\ run[r].served_url # <<>>

\* A run whose safety check raised returned the cached primary image.
C21_Witness ==
    \E r \in Runs :
        /\ GeneratedCheckFailed(run[r])
        /\ Returned(run[r])
        /\ run[r].image_url = DataUrl
        /\ run[r].result[1].source = "generated_imagen"

\* Run f returned a generated image.
ReturnedGenerated(f) ==
    /\ f.op = "process_slide"
    /\ Returned(f)
    /\ f.result[1].source \in GeneratedTags

\* The generator output whose materialization run f returned, and whether
\* the download rule applies to it (it does to the primary output only).
Materialized(f) ==
    IF f.image_from = "retry"
    THEN [url |-> f.retry_url, flux |-> FALSE]
    ELSE [url |-> f.image_url, flux |-> f.ai_model = "flux"]

\* url is the cache-backed path of an entry of the cache holding bytes.
CacheBacked(url, bytes) ==
    \E i \in 1..Len(store) :
        /\ url = ServedUrl(store[i].id)
        /\ store[i].data = bytes

\* C22, as stated: a returned data: payload is decoded and stored and the
\* result URL is the cache-backed path of the new ID; a remote URL returned
\* by the flux generator is downloaded and stored and the result URL is
\* cache-backed; in every other case the returned URL is used unchanged; the
\* rule for data: payloads applies to the retry output too.
C22_MaterializationAlwaysCaches ==
    \A r \in Runs :
        ReturnedGenerated(run[r]) =>
            LET m == Materialized(run[r])
                url == run[r].result[1].url
            IN IF StartsWith(m.url, "data:")
               THEN \E i \in 1..Len(store) : url = ServedUrl(store[i].id)
               ELSE IF m.flux /\ IsHttp(m.url)
               THEN \E i \in 1..Len(store) : url = ServedUrl(store[i].id)
               ELSE url = m.url

\* store_data_url accepts the URL.
Storable(url) == StoreDataUrl(<<>>, url).ok

\* C22, amended: a returned data: payload that store_data_url accepts is
\* decoded and stored and the result URL is the cache-backed path of its
\* entry; a remote URL returned by the flux generator whose download
\* succeeds is stored and the result URL is cache-backed; in every other
\* case, a data: payload store_data_url rejects and a failed download
\* included, the returned URL is used unchanged. The rule for data: payloads
\* applies to the retry output too.
C22_MaterializationUnlessStoringFails ==
    \A r \in Runs :
        ReturnedGenerated(run[r]) =>
            LET m == Materialized(run[r])
                url == run[r].result[1].url
            IN IF StartsWith(m.url, "data:") /\ Storable(m.url)
               THEN CacheBacked(url, "ABC")
               ELSE IF ~StartsWith(m.url, "data:") /\ m.flux /\ IsHttp(m.url)
                       /\ run[r].download = "ok"
               THEN CacheBacked(url, "JPEG")
               ELSE url = m.url

\* A retry returned a data: payload, which was stored after the primary
\* image's entry and is served from the cache.
C22_Witness ==
    \E r \in Runs :
        /\ ReturnedGenerated(run[r])
        /\ run[r].image_from = "retry"
        /\ run[r].retry_url = DataUrl
        /\ run[r].download = "ok"
        /\ Len(store) = 2
        /\ run[r].result[1].url = ServedUrl(store[2].id)

\* Run f of process_slide ended with an exception raised inside
\* extract_keywords: by the read of the override list, by the extraction call
\* or by the refinement call.
ExtractionWasFatal(f) ==
    /\ f.op = "process_slide"
    /\ f.pc = "raised"
    /\ \/ /\ f.exc = "AttributeError"
          /\ f.slide.unsplashSearchTerms.kind = "absent"
       \/ /\ f.calls # <<>>
          /\ f.calls[Len(f.calls)] \in {"extract", "refine"}

\* C23: when the structured parsing of the extraction response fails,
\* extract_keywords continues with the override list as the keyword set and
\* an unsuitable flag of false and still returns a query; more generally no
\* failure of keyword extraction is fatal to the run: no run ends with an
\* exception of extract_keywords.
C23_ExtractionFailureNeverFatal ==
    \A r \in Runs : ~ExtractionWasFatal(run[r])

\* What the safety assessor gave for candidate i of run f.
NudityOf(f, i) == CheckNudity(f.answers[i][1].local, f.answers[i][1].sightengine)

\* C24: in the scorer a failure in one concurrent branch neither cancels nor
\* discards its siblings: whichever of the three assessors fail for a
\* candidate, the value of each assessor that succeeded is in the candidate's
\* record unchanged, and every candidate has its record when score_images
\* returns, whatever failed for the others.
C24_AssessorFailuresAreIsolated ==
    \A r \in Runs :
        /\ \A i \in 1..Len(run[r].scored) :
               run[r].scored[i] # None =>
                   LET a == run[r].answers[i][1]
                       scores == run[r].scored[i][1].scores
                   IN /\ a.quality.kind = "ok"
                         => scores.quality_score = a.quality.v
                      /\ scores.presentation_score
                             = PresentationScore(a.presentation)
                      /\ NudityOf(run[r], i).ok
                         => scores.nudity_score =
                                ExtractNuditySafeScore(NudityOf(run[r], i).data)
        /\ ScoringEnded(run[r])
           => /\ Len(run[r].scored_images) = Len(run[r].search_results)
              /\ \A i \in 1..Len(run[r].scored) :
                     /\ run[r].scored[i] # None
                     /\ run[r].scored_images[i] = run[r].scored[i][1]

\* C25, as stated: whenever the quality assessor fails for a candidate, for
\* any cause, the candidate's record gets the default quality score 0.5,
\* whatever the configured quality floor.
C25_QualityFailureAlwaysMidScale ==
    \A r \in Runs :
        \A i \in 1..Len(run[r].scored) :
            (run[r].scored[i] # None /\ run[r].answers[i][1].quality.kind # "ok")
            => run[r].scored[i][1].scores.quality_score = DefaultQualityScore

\* C25, amended: when the quality assessor fails with a message naming the
\* daily usage limit the record gets the configured quality floor, and when
\* it fails for any other cause the record gets the default 0.5.
C25_QualityFailureFloorOnQuotaElseMidScale ==
    \A r \in Runs :
        \A i \in 1..Len(run[r].scored) :
            run[r].scored[i] # None =>
                LET quality == run[r].answers[i][1].quality
                    quality_score == run[r].scored[i][1].scores.quality_score
                IN /\ quality = QualityQuota => quality_score = MinQualityScore
                   /\ quality = QualityError
                      => quality_score = DefaultQualityScore

\* One scoring met both kinds of failure: the record of the first candidate
\* has the floor, the record of the second the default.
C25_Witness ==
    \E r \in Runs :
        /\ run[r].op = "score_images"
        /\ run[r].pc = "done"
        /\ Len(run[r].scored_images) = 2
        /\ run[r].answers[1][1].quality = QualityQuota
        /\ run[r].scored_images[1].scores.quality_score = MinQualityScore
        /\ run[r].answers[2][1].quality = QualityError
        /\ run[r].scored_images[2].scores.quality_score = DefaultQualityScore

\* C26: when the safety assessment of a candidate fails on the preferred and
\* on the secondary provider (and whenever check_nudity raises), the
\* candidate's record has the maximal safety score 1.0 and the safety flag
\* true, so that the outage does not reject the candidate.
C26_SafetyOutageFailsOpen ==
    \A r \in Runs :
        \A i \in 1..Len(run[r].scored) :
            (/\ run[r].scored[i] # None
             /\ \/ ~NudityOf(run[r], i).ok
                \/ /\ ~run[r].answers[i][1].local.ok
                   /\ ~run[r].answers[i][1].sightengine.ok)
            => /\ run[r].scored[i][1].scores.nudity_score = FullScore
               /\ run[r].scored[i][1].scores.is_safe
               /\ FilterDone(run[r]) /\ run[r].op = "process_slide"
                  => (PositionsOf(run[r].suitable, run[r].scored[i][1]) = {}
                      => ~Passes(run[r].scored[i][1]))

\* Both providers were down for a candidate whose other scores qualify, and
\* the candidate is the stock result.
C26_Witness ==
    \E r \in Runs :
        /\ run[r].op = "process_slide"
        /\ Returned(run[r])
        /\ run[r].result[1].source = "stock_unsplash"
        /\ Len(run[r].scored) >= 1
        /\ ~run[r].answers[1][1].local.ok
        /\ ~run[r].answers[1][1].sightengine.ok
        /\ run[r].scored[1][1].scores.nudity_score = FullScore
        /\ run[r].result[1].url = run[r].search_results[1].full_url

\* C27: check_nudity calls the preferred (local) provider first when one is
\* configured and SightEngine only after the preferred provider failed or
\* when none is configured: SightEngine is never called after the preferred
\* provider succeeded and is always called before check_nudity gives up.
C27_SecondaryTriedBeforeGivingUp ==
    \A r \in Runs :
        \A i \in 1..Len(run[r].scored) :
            run[r].scored[i] # None =>
                LET a == run[r].answers[i][1]
                    n == NudityOf(run[r], i)
                IN /\ n.called \in {<<"local">>, <<"sightengine">>,
                                   <<"local", "sightengine">>}
                   /\ n.called = <<"local">> => a.local.ok /\ n.ok
                   /\ n.called = <<"local", "sightengine">> => ~a.local.ok
                   /\ ~n.ok => /\ n.called # <<>>
                               /\ n.called[Len(n.called)] = "sightengine"
                               /\ ~a.sightengine.ok

\* extract_nudity_safe_score has returned in run f.
ExtractDone(f) == f.op = "extract_nudity_safe_score" /\ f.pc = "done"

\* The first value of a sequence of optional values, None when it has none.
RECURSIVE FirstPresent(_)
FirstPresent(values) ==
    IF values = <<>> THEN None
    ELSE IF Head(values) # None THEN Head(values)
    ELSE FirstPresent(Tail(values))

\* The value each recognized shape gives for response d, None for a shape d
\* does not carry, in the order of precedence: nested result,
\* predictions[0], safe-probability fields, boolean safe flag, nsfw score
\* inverted, boolean nsfw and unsafe flags, label and score pair, nested
\* category probability.
ShapeValues(d) ==
    << IF d.result.t = "dict"
       THEN Some(ExtractNuditySafeScore(d.result.d[1])) ELSE None,
       IF /\ d.predictions.t = "list"
          /\ Len(d.predictions.items) > 0
          /\ d.predictions.items[1].t = "dict"
       THEN Some(ExtractNuditySafeScore(d.predictions.items[1].d[1]))
       ELSE None,
       FirstPresent(<<ClampValue(d.safe_score), ClampValue(d.safe_prob),
                      ClampValue(d.safe_probability)>>),
       IF d.safe.t = "bool" THEN Some(IF d.safe.b THEN FullScore ELSE 0)
       ELSE None,
       IF ClampValue(d.nsfw_score) # None
       THEN Some(FullScore - ClampValue(d.nsfw_score)[1]) ELSE None,
       FirstPresent(<<IF d.nsfw.t = "bool"
                      THEN Some(IF d.nsfw.b THEN 0 ELSE FullScore) ELSE None,
                      IF d.unsafe.t = "bool"
                      THEN Some(IF d.unsafe.b THEN 0 ELSE FullScore)
                      ELSE None>>),
       LabelScore(d),
       ClampValue(d.none) >>

\* C28: extract_nudity_safe_score resolves a response carrying several
\* recognized shapes by the precedence nested result, predictions[0],
\* safe-probability fields, boolean safe flag, nsfw score inverted, boolean
\* nsfw/unsafe flags, label and score pair, nested category probability: the
\* result is the value of the first shape present, and 1.0 when the response
\* is empty or carries none.
C28_ShapesResolvedByPrecedence ==
    \A r \in Runs :
        ExtractDone(run[r]) =>
            LET first == FirstPresent(ShapeValues(run[r].nudity_data))
            IN run[r].nudity_safe_score =
                   IF first = None THEN Some(FullScore) ELSE first

\* A response with a safe probability of 0.2 and a safe flag of false gave
\* 0.2.
C28_Witness ==
    \E r \in Runs :
        /\ ExtractDone(run[r])
        /\ run[r].nudity_data.safe_score = Num(20)
        /\ run[r].nudity_data.safe = Bool(FALSE)
        /\ run[r].nudity_safe_score = Some(20)

\* C29: every record the scorer produces has a safety score in [0,1], and
\* extract_nudity_safe_score returns one, whatever numbers (below 0 and above
\* 1 included) the response carries in the recognized shapes.
C29_SafetyScoreInUnitInterval ==
    \A r \in Runs :
        /\ run[r].nudity_safe_score # None
           => run[r].nudity_safe_score[1] \in 0..FullScore
        /\ \A i \in 1..Len(run[r].scored) :
               run[r].scored[i] # None
               => run[r].scored[i][1].scores.nudity_score \in 0..FullScore

\* A response with an nsfw score of 2.5 and a category probability of 1.2
\* gave 0.
C29_Witness ==
    \E r \in Runs :
        /\ ExtractDone(run[r])
        /\ run[r].nudity_data.nsfw_score = Num(250)
        /\ run[r].nudity_data.none = Num(120)
        /\ run[r].nudity_safe_score = Some(0)

\* C30: in stock_only mode the generator is never invoked: for every slide
\* with image mode stock_only, whatever its style, generator selector and
\* keyword outcome and whatever search and scoring give, process_slide builds
\* no prompt and calls no generator, and the result it returns is a stock
\* result or a result of source "none", never a generated or failed one.
C30_StockOnlyNeverGenerates ==
    \A r \in Runs :
        (run[r].op = "process_slide" /\ run[r].slide.image_mode = "stock_only")
        => /\ CountCalls(run[r], {"prompt"} \cup GenerateCalls) = 0
           /\ Returned(run[r])
              => run[r].result[1].source
                     \in {"stock_unsplash", "stock_pexels", "none"}

====
